---- MODULE Spec2Model ----
(***************************************************************************)
(* A model of rsync-system-backup: the control flow of                     *)
(* RsyncSystemBackup.execute() (rsync_system_backup/__init__.py) over an   *)
(* abstract destination system (crypttab, encrypted device, mount point,   *)
(* destination directory), the parsing and the properties of Destination   *)
(* (rsync_system_backup/destinations.py), and main()                       *)
(* (rsync_system_backup/cli.py), which builds the program and runs         *)
(* execute().                                                              *)
(*                                                                         *)
(* Strings of the program are sequences of one-character strings, so that  *)
(* path functions are computed the way the code computes them.  The value  *)
(* None of an optional string property is the empty sequence (the code     *)
(* only tests such properties for truth).                                  *)
(***************************************************************************)
EXTENDS Integers, Sequences, FiniteSets, TLC

-----------------------------------------------------------------------------
(* String helpers.                                                         *)

\* str.rstrip('/'): drop every trailing slash.
RECURSIVE rstrip(_)
rstrip(s) ==
    IF s # <<>> /\ s[Len(s)] = "/" THEN rstrip(SubSeq(s, 1, Len(s) - 1)) ELSE s

\* str.rfind('/') + 1: the length of the prefix ending in the last slash.
rfind_plus_one(p) ==
    LET idx == {i \in 1..Len(p) : p[i] = "/"}
    IN  IF idx = {} THEN 0 ELSE CHOOSE i \in idx : \A j \in idx : j <= i

\* os.path.dirname (posixpath): the head up to the last slash, stripped of
\* its trailing slashes unless it consists of slashes only.
dirname(p) ==
    LET head == SubSeq(p, 1, rfind_plus_one(p))
    IN  IF head # <<>> /\ (\E i \in 1..Len(head) : head[i] # "/")
        THEN rstrip(head) ELSE head

\* os.path.join (posixpath) of a directory and a relative name.
path_join(a, b) ==
    IF a = <<>> \/ a[Len(a)] = "/" THEN a \o b ELSE a \o <<"/">> \o b

\* Destination.parent_directory: the empty result stands for the raise of
\* ParentDirectoryUnavailable.
parent_directory_unstripped(directory) == dirname(directory)

parent_directory(directory) == dirname(rstrip(directory))

\* time.strftime('%Y-%m-%d %H:%M:%S'), one opaque name.
Timestamp == <<"T">>

-----------------------------------------------------------------------------
(* The values the configuration and the destination are drawn from.        *)

None == <<>>

CryptoDevices == {None, <<"c">>}
MountPoints == {None, <<"/", "m">>}
Hostnames == {<<>>, <<"h">>}
Modules == {<<>>, <<"m">>}
Directories == {<<>>, <<"/">>, <<"l">>, <<"/", "l">>, <<"/", "b", "/", "l">>,
                <<"/", "b", "/", "l", "/">>}

\* The sources and the exclusion patterns (a pattern is kept whole).
Sources == {<<"/">>, <<"/", "s">>, <<"/", "s", "/", "/">>}

DEFAULT_EXCLUDED_ROOTS ==
    <<"/dev/", "/home/*/.cache/", "/media/", "/mnt/", "/proc/", "/run/",
      "/sys/", "/tmp/", "/var/cache/", "/var/tmp/">>

ExcludedRoots == {DEFAULT_EXCLUDED_ROOTS, <<>>, <<"/x/", "/dev/", "/x/">>}

\* The I/O scheduling classes and the rotation schemes.
IoniceClasses == {None, <<"i", "d", "l", "e">>}

DEFAULT_ROTATION_SCHEME ==
    [hourly |-> 24, daily |-> 7, weekly |-> 4, monthly |-> "always"]

RotationSchemes == {DEFAULT_ROTATION_SCHEME, [daily |-> 3]}

\* The classes a destination object may have.
DestinationClasses == {"Destination", "ForwardedDestination"}

\* The exit statuses rsync is given in the model: success, a fatal error,
\* the two partial transfers, a timeout.
ReturnCodes == {0, 1, 23, 24, 30}

-----------------------------------------------------------------------------
(* Destination expressions (rsync_system_backup/destinations.py).  The     *)
(* patterns are kept as the regular expressions of the source and matched  *)
(* the way Python's re module matches them: greedy repetition, optional    *)
(* groups tried before being skipped, backtracking in that order, `.'      *)
(* matching anything but a newline and `$' matching at the end of the      *)
(* string or before a newline that ends it.                                *)

\* Regular expression nodes.
Literal(text) == [type |-> "literal", text |-> text]
\* [chars]+, [^chars]+, [chars]*, [^chars]*
Repeat(negated, chars, min) ==
    [type |-> "repeat", negated |-> negated, chars |-> chars, min |-> min]
\* (?P<name> node )
Group(name, node) == [type |-> "group", name |-> name, node |-> node]
\* ( node )?
Optional(node) == [type |-> "optional", node |-> node]
Concat(nodes) == [type |-> "concat", nodes |-> nodes]
\* $
EndOfString == [type |-> "end"]

Digits == <<"0", "1", "2", "3", "4", "5", "6", "7", "8", "9">>
\* \d+
DigitsPlus == Repeat(FALSE, {Digits[i] : i \in 1..Len(Digits)}, 1)
\* .+ and .*
DotPlus == Repeat(TRUE, {"\n"}, 1)
DotStar == Repeat(TRUE, {"\n"}, 0)
\* [^...]+
NotPlus(chars) == Repeat(TRUE, chars, 1)

\* The groups of a match that did not take part in it are None.
NoCaptures ==
    [username |-> None, hostname |-> None, port_number |-> None,
     module |-> None, directory |-> None]

RECURSIVE Flatten(_)
Flatten(seqs) ==
    IF seqs = <<>> THEN <<>> ELSE Head(seqs) \o Flatten(Tail(seqs))

\* The number of characters from position i on that are in the class.
ClassRun(node, s, i) ==
    LET inside(c) == (c \in node.chars) # node.negated
        runs == {n \in 0..(Len(s) - i + 1) :
                    \A k \in i..(i + n - 1) : inside(s[k])}
    IN  CHOOSE n \in runs : \A m \in runs : m <= n

\* The ways node matches s from position i, in the order the backtracking
\* matcher tries them; each is the position after the match and the
\* captured groups.
RECURSIVE Match(_, _, _, _), MatchNodes(_, _, _, _)
Match(node, s, i, captures) ==
    CASE node.type = "literal" ->
            IF i + Len(node.text) - 1 <= Len(s)
               /\ SubSeq(s, i, i + Len(node.text) - 1) = node.text
            THEN <<[pos |-> i + Len(node.text), captures |-> captures]>>
            ELSE <<>>
      [] node.type = "repeat" ->
            LET max == ClassRun(node, s, i)
            IN  [k \in 1..(max - node.min + 1) |->
                    [pos |-> i + max - k + 1, captures |-> captures]]
      [] node.type = "group" ->
            LET inner == Match(node.node, s, i, captures)
            IN  [k \in 1..Len(inner) |->
                    [pos |-> inner[k].pos,
                     captures |-> [inner[k].captures EXCEPT
                        ![node.name] = SubSeq(s, i, inner[k].pos - 1)]]]
      [] node.type = "optional" ->
            Match(node.node, s, i, captures)
            \o <<[pos |-> i, captures |-> captures]>>
      [] node.type = "concat" ->
            MatchNodes(node.nodes, 1, s, <<[pos |-> i, captures |-> captures]>>)
      [] node.type = "end" ->
            IF i = Len(s) + 1 \/ (i = Len(s) /\ s[i] = "\n")
            THEN <<[pos |-> i, captures |-> captures]>>
            ELSE <<>>

\* The nodes from the k-th on, continued from each of the given matches.
MatchNodes(nodes, k, s, starts) ==
    IF k > Len(nodes) THEN starts
    ELSE MatchNodes(nodes, k + 1, s,
            Flatten([j \in 1..Len(starts) |->
                Match(nodes[k], s, starts[j].pos, starts[j].captures)]))

\* pattern.match(value): the first way found, or no match.
match(pattern, s) ==
    LET found == Match(pattern, s, 1, NoCaptures)
    IN  IF found = <<>> THEN [matched |-> FALSE, captures |-> NoCaptures]
        ELSE [matched |-> TRUE, captures |-> found[1].captures]

RSYNCD_PORT == 873

\* ^(?P<directory>.+)$ matches any string that is not empty.
LOCAL_DESTINATION_OR_EMPTY ==
    Concat(<<Group("directory", DotStar), EndOfString>>)

LOCAL_DESTINATION == Concat(<<Group("directory", DotPlus), EndOfString>>)

\* ( (?P<username> [^@]+ ) @ )?
OptionalUsername ==
    Optional(Concat(<<Group("username", NotPlus({"@"})), Literal(<<"@">>)>>))

\* ( / (?P<directory> .* ) )?
OptionalDirectory ==
    Optional(Concat(<<Literal(<<"/">>), Group("directory", DotStar)>>))

SSH_DESTINATION ==
    Concat(<<OptionalUsername,
             Group("hostname", NotPlus({":"})), Literal(<<":">>),
             Group("directory", DotStar)>>)

SIMPLE_DAEMON_DESTINATION ==
    Concat(<<OptionalUsername,
             Group("hostname", NotPlus({":"})), Literal(<<":", ":">>),
             Group("module", NotPlus({"/"})),
             OptionalDirectory, EndOfString>>)

RsyncScheme == <<"r", "s", "y", "n", "c", ":", "/", "/">>

ADVANCED_DAEMON_DESTINATION ==
    Concat(<<Literal(RsyncScheme),
             OptionalUsername,
             Group("hostname", NotPlus({":", "/"})),
             Optional(Concat(<<Literal(<<":">>),
                               Group("port_number", DigitsPlus)>>)),
             Literal(<<"/">>),
             Group("module", NotPlus({"/"})),
             OptionalDirectory, EndOfString>>)

\* The patterns in the order they are tried, with their names.
DESTINATION_PATTERNS ==
    <<[name |-> "ADVANCED_DAEMON_DESTINATION",
       pattern |-> ADVANCED_DAEMON_DESTINATION],
      [name |-> "SIMPLE_DAEMON_DESTINATION",
       pattern |-> SIMPLE_DAEMON_DESTINATION],
      [name |-> "SSH_DESTINATION", pattern |-> SSH_DESTINATION],
      [name |-> "LOCAL_DESTINATION", pattern |-> LOCAL_DESTINATION]>>

\* int(value) of a string of decimal digits.
RECURSIVE int(_)
int(s) ==
    IF s = <<>> THEN 0
    ELSE int(SubSeq(s, 1, Len(s) - 1)) * 10
         + (CHOOSE d \in 0..9 : Digits[d + 1] = s[Len(s)])

\* '%s' % number
RECURSIVE str(_)
str(n) ==
    IF n < 10 THEN <<Digits[n + 1]>>
    ELSE str(n \div 10) \o <<Digits[(n % 10) + 1]>>

\* A Destination whose properties all have their default value.
NewDestination ==
    [username |-> <<>>, hostname |-> <<>>, port_number |-> RSYNCD_PORT,
     module |-> <<>>, directory |-> <<>>]

\* set_properties() of the non_empty captures: the captured groups that
\* are not empty are assigned, the port number through int().
set_properties_of_all_captures(d, captures) ==
    [username |-> captures.username,
     hostname |-> captures.hostname,
     port_number |-> IF captures.port_number # <<>>
                     THEN int(captures.port_number) ELSE d.port_number,
     module |-> captures.module,
     directory |-> captures.directory]

set_properties(d, captures) ==
    [username |-> IF captures.username # <<>> THEN captures.username
                  ELSE d.username,
     hostname |-> IF captures.hostname # <<>> THEN captures.hostname
                  ELSE d.hostname,
     port_number |-> IF captures.port_number # <<>>
                     THEN int(captures.port_number) ELSE d.port_number,
     module |-> IF captures.module # <<>> THEN captures.module
                ELSE d.module,
     directory |-> IF captures.directory # <<>> THEN captures.directory
                   ELSE d.directory]

\* The setter of Destination.expression: the first pattern that matches
\* sets the properties, InvalidDestinationError when none does.  The
\* outcome names the pattern that matched.
RECURSIVE SetFrom(_, _, _)
SetFrom(k, d, s) ==
    IF k > Len(DESTINATION_PATTERNS)
    THEN [error |-> "InvalidDestinationError", pattern |-> "", destination |-> d]
    ELSE LET m == match(DESTINATION_PATTERNS[k].pattern, s)
         IN  IF m.matched
             THEN [error |-> "none", pattern |-> DESTINATION_PATTERNS[k].name,
                   destination |-> set_properties(d, m.captures)]
             ELSE SetFrom(k + 1, d, s)

set_expression(d, s) == SetFrom(1, d, s)

\* ensure_trailing_slash(): an expression that is not empty loses its
\* trailing slashes and gets one.
ensure_trailing_slash_appending(path) ==
    IF path # <<>> THEN path \o <<"/">> ELSE path

ensure_trailing_slash(path) ==
    IF path # <<>> THEN rstrip(path) \o <<"/">> ELSE path

\* The getter of Destination.expression (None: the empty sequence).
expression_without_default_port(d) ==
    IF ~(d.hostname # <<>> \/ d.directory # <<>>) THEN None
    ELSE (IF d.module # <<>> THEN RsyncScheme ELSE <<>>)
         \o (IF d.hostname # <<>>
             THEN (IF d.username # <<>> THEN d.username \o <<"@">> ELSE <<>>)
                  \o d.hostname
                  \o (IF d.module # <<>>
                      THEN (IF d.port_number # RSYNCD_PORT
                            THEN <<":">> \o str(d.port_number) ELSE <<>>)
                           \o <<"/">> \o d.module
                      ELSE <<":">>)
             ELSE <<>>)
         \o (IF d.directory # <<>> THEN d.directory ELSE <<>>)

expression(d) ==
    IF ~(d.hostname # <<>> \/ d.directory # <<>>) THEN None
    ELSE (IF d.module # <<>> THEN RsyncScheme ELSE <<>>)
         \o (IF d.hostname # <<>>
             THEN (IF d.username # <<>> THEN d.username \o <<"@">> ELSE <<>>)
                  \o d.hostname
                  \o (IF d.module # <<>>
                      THEN (IF d.port_number # 0
                            THEN <<":">> \o str(d.port_number) ELSE <<>>)
                           \o <<"/">> \o d.module
                      ELSE <<":">>)
             ELSE <<>>)
         \o (IF d.directory # <<>> THEN d.directory ELSE <<>>)

-----------------------------------------------------------------------------
VARIABLES
    \* RsyncSystemBackup properties (read-only during execute).
    backup_enabled, snapshot_enabled, rotate_enabled, dry_run,
    notifications_enabled, crypto_device, mount_point, destination,
    source, excluded_roots, ionice, rotation_scheme,
    destination_class,    \* the class of the destination object
    \* The destination system.
    crypttab_has_entry,   \* /etc/crypttab has an entry whose target is crypto_device
    is_available,         \* EncryptedFileSystemEntry.is_available
    is_unlocked,          \* EncryptedFileSystemEntry.is_unlocked
    mounted,              \* `mountpoint MOUNT_POINT' succeeds
    directory_exists,     \* destination_context.is_directory(destination.directory)
    \* The run.
    pc,                   \* the position of execute()
    context,              \* "none", "entered" (inside `with'), "unavailable"
    undo_stack,           \* cleanup commands registered in the `with' scope
    commands,             \* external commands executed, in order, with exit status
    rotations,            \* calls of RotateBackups.rotate_backups, in order
    notifications,        \* desktop notifications fired, in order
    undelivered,          \* the notifications whose delivery failed, in order
    phases,               \* steps of execute() performed, in order
    cleanup_failures,     \* cleanup commands that failed during the unwind
    error,                \* the exception execute() is raising ("none": none)
    initial,              \* the destination system as execute() found it
    destination_context,  \* the cached execution context of the destination
    \* Destination(expression=...) and a read of Destination.expression.
    address,              \* the parts the expression was composed from
    value,                \* the expression given to the setter
    parsed,               \* the outcome of the setter on a new Destination
    serialized,           \* the expression the getter computes afterwards
    reparsed,             \* the outcome of the setter on the computed one
    parse_pc,             \* "idle", "new", "parsed", "serialized", "reparsed"
    \* Destination(...) from keyword arguments and reads of its properties.
    keywords,             \* the keyword arguments of the constructor
    object,               \* the outcome of the constructor
    read,                 \* the last property read or assigned, and the outcome
    object_pc,            \* "idle", "new", "constructed", "read", "assigned"
    \* cli.main().
    argv,                 \* the options of the command line, as given
    options,              \* the options main() still has to handle
    arguments,            \* the positional arguments
    environ,              \* the value of $RSYNC_MODULE_PATH (empty: not set)
    terminal,             \* connected_to_terminal()
    program_opts,         \* the keyword arguments collected for the program
    cli_pc,               \* "idle", "options", "usage", "rejected", "run",
                          \* "raised", "executing", "finished"
    exit_status           \* the exit status of the process (-1: running)

parser == <<address, value, parsed, serialized, reparsed, parse_pc,
           keywords, object, read, object_pc>>
cli == <<argv, options, arguments, environ, terminal, program_opts, cli_pc,
         exit_status>>
config == <<backup_enabled, snapshot_enabled, rotate_enabled, dry_run,
            notifications_enabled, crypto_device, mount_point, destination,
            source, excluded_roots, ionice, rotation_scheme,
            destination_class>>
system == <<crypttab_has_entry, is_available, is_unlocked, mounted,
            directory_exists>>
run == <<pc, context, undo_stack, commands, rotations, notifications,
         undelivered, phases, cleanup_failures, error, initial,
         destination_context>>
vars == <<config, system, run, parser, cli>>

Errors == {"none", "MissingBackupDiskError", "AttributeError",
           "DestinationContextUnavailable", "FailedToUnlockError",
           "FailedToMountError", "ExternalCommandFailed",
           "ParentDirectoryUnavailable", "RotateBackupsError"}

\* An external command: the program, its options, its pathname arguments.
Command(prog, opts, paths) == [prog |-> prog, opts |-> opts, paths |-> paths]

\* A command that was run, with the exit status it ended with.
Executed(command, returncode) ==
    [prog |-> command.prog, opts |-> command.opts, paths |-> command.paths,
     returncode |-> returncode]

\* No Destination is being constructed from keyword arguments.
NoRead == [property |-> "none"]

ObjectIdle ==
    /\ keywords = [has_expression |-> FALSE]
    /\ object = [error |-> "none"]
    /\ read = NoRead
    /\ object_pc = "idle"

\* No Destination is being parsed.
ParserIdle ==
    /\ ObjectIdle
    /\ address = [form |-> "none"]
    /\ value = <<>>
    /\ parsed = [error |-> "none"]
    /\ serialized = <<>>
    /\ reparsed = [error |-> "none"]
    /\ parse_pc = "idle"

\* main() is not running.
CliIdle ==
    /\ argv = <<>>
    /\ options = <<>>
    /\ arguments = <<>>
    /\ environ = <<>>
    /\ terminal = FALSE
    /\ program_opts = <<>>
    /\ cli_pc = "idle"
    /\ exit_status = -1

\* sudo_enabled keeps its default.
sudo_enabled == TRUE

\* destination_context: the options given to create_context().
context_opts_without_user(d) ==
    IF d.hostname # <<>>
    THEN [sudo |-> sudo_enabled, ssh_alias |-> d.hostname, ssh_user |-> <<>>]
    ELSE [sudo |-> sudo_enabled]

context_opts(d) ==
    IF d.hostname # <<>>
    THEN [sudo |-> sudo_enabled, ssh_alias |-> d.hostname,
          ssh_user |-> d.username]
    ELSE [sudo |-> sudo_enabled]

\* create_context() of the executor package: a remote context when an SSH
\* alias is given, a local context otherwise.
create_context(opts) ==
    IF "ssh_alias" \in DOMAIN opts
    THEN [class |-> "RemoteContext", ssh_alias |-> opts.ssh_alias,
          ssh_user |-> opts.ssh_user, sudo |-> opts.sudo]
    ELSE [class |-> "LocalContext", sudo |-> opts.sudo]

\* The cached destination_context before it is read.
NoContext == [class |-> "none"]

\* A read of destination_context for the destination d: the exception it
\* raises ("none": none) and the context it returns.
DestinationContext(d) ==
    IF d.module # <<>>
    THEN [raised |-> "DestinationContextUnavailable", context |-> NoContext]
    ELSE [raised |-> "none", context |-> create_context(context_opts(d))]

\* The properties of RsyncSystemBackup that keep their default value, and a
\* destination that is a plain Destination.
Defaults ==
    /\ source = <<"/">>
    /\ excluded_roots = DEFAULT_EXCLUDED_ROOTS
    /\ ionice = None
    /\ rotation_scheme = DEFAULT_ROTATION_SCHEME
    /\ destination_class = "Destination"

Init ==
    /\ ParserIdle
    /\ CliIdle
    /\ Defaults
    /\ backup_enabled \in BOOLEAN
    /\ snapshot_enabled \in BOOLEAN
    /\ rotate_enabled \in BOOLEAN
    /\ dry_run \in BOOLEAN
    /\ notifications_enabled \in BOOLEAN
    /\ crypto_device \in CryptoDevices
    /\ mount_point \in MountPoints
    /\ destination \in [username : {<<>>}, hostname : Hostnames,
                        port_number : {RSYNCD_PORT}, module : Modules,
                        directory : Directories]
    \* Destination.expression is None, and the constructor fails, when
    \* hostname and directory are both empty.
    /\ destination.hostname # <<>> \/ destination.directory # <<>>
    /\ crypttab_has_entry \in BOOLEAN
    /\ is_available \in BOOLEAN
    /\ is_unlocked \in BOOLEAN
    /\ mounted \in BOOLEAN
    /\ directory_exists \in BOOLEAN
    \* Without a crypto device or a crypttab entry there is no entry to ask;
    \* without a mount point nothing is asked about it.
    /\ crypto_device = None => ~crypttab_has_entry
    /\ ~crypttab_has_entry => ~is_available /\ ~is_unlocked
    /\ mount_point = None => ~mounted
    /\ pc = "execute"
    /\ context = "none"
    /\ undo_stack = <<>>
    /\ commands = <<>>
    /\ rotations = <<>>
    /\ notifications = <<>>
    /\ undelivered = <<>>
    /\ phases = <<>>
    /\ cleanup_failures = {}
    /\ error = "none"
    /\ initial = [is_unlocked |-> is_unlocked, mounted |-> mounted,
                  directory_exists |-> directory_exists]
    /\ destination_context = NoContext

-----------------------------------------------------------------------------
(* Computed properties of RsyncSystemBackup.                               *)

\* destination_context raises DestinationContextUnavailable.
DestinationContextUnavailable == destination.module # <<>>

\* crypttab_entry is an entry (not None).
crypttab_entry == crypto_device # None /\ crypttab_has_entry

crypto_device_available == IF crypttab_entry THEN is_available ELSE FALSE

crypto_device_unlocked == IF crypttab_entry THEN is_unlocked ELSE FALSE

mount_point_active == IF mount_point # None THEN mounted ELSE FALSE

-----------------------------------------------------------------------------
(* The control flow of execute() and execute_helper().                     *)

\* The statements of execute_helper(), in program order.
StatementsSnapshotFirst ==
    <<"preflight", "notify_starting", "unlock_device", "mount_filesystem",
      "create_snapshot", "transfer_changes", "rotate_snapshots",
      "notify_finished">>

Statements ==
    <<"preflight", "notify_starting", "unlock_device", "mount_filesystem",
      "transfer_changes", "create_snapshot", "rotate_snapshots",
      "notify_finished">>

\* The statements inside the try block of execute_helper().
TryBlock == {"mount_filesystem", "transfer_changes", "create_snapshot",
             "rotate_snapshots"}

\* The `if' that guards a statement of execute_helper().
StatementEnabledAlways(s) == TRUE

StatementEnabled(s) ==
    CASE s \in {"notify_starting", "transfer_changes", "notify_finished"}
            -> backup_enabled
      [] s = "create_snapshot" -> snapshot_enabled
      [] s = "rotate_snapshots" -> rotate_enabled
      [] OTHER -> TRUE

\* Where execute() goes when execute_helper() returns (e = "none") or
\* raises e: inside the `with' block the context's __exit__ runs in both
\* cases; after DestinationContextUnavailable there is no block to leave.
ReturnSkipsExitOnError(e) ==
    IF context = "entered" /\ e = "none" THEN "exit_context" ELSE "done"

Return(e) == IF context = "entered" THEN "exit_context" ELSE "done"

StatementIndex(s) == CHOOSE i \in 1..Len(Statements) : Statements[i] = s

\* The statement executed after statement s completed normally.
NextStatement(s) ==
    LET later == {i \in (StatementIndex(s) + 1)..Len(Statements) :
                      StatementEnabled(Statements[i])}
    IN  IF later = {} THEN Return("none")
        ELSE Statements[CHOOSE i \in later : \A j \in later : i <= j]

\* Statement s completes normally.
Continue(s) == pc' = NextStatement(s) /\ error' = error

\* Statement s raises e: `except Exception' of the try block calls
\* notify_failed() and re-raises, anything else leaves execute_helper().
Raise(e, s) ==
    /\ error' = e
    /\ pc' = IF s \in TryBlock THEN "notify_failed" ELSE Return(e)

\* execute(): `with self.destination_context' either enters the context or
\* raises DestinationContextUnavailable, after which execute_helper() runs
\* without a context.
Execute ==
    /\ pc = "execute"
    /\ context' = IF DestinationContextUnavailable THEN "unavailable"
                  ELSE "entered"
    /\ pc' = "preflight"
    /\ destination_context' =
          IF DestinationContextUnavailable THEN destination_context
          ELSE DestinationContext(destination).context
    /\ UNCHANGED <<parser, cli, initial, config, system, undo_stack, commands, rotations,
                   notifications, undelivered, phases, cleanup_failures, error>>

\* execute_helper(): the check of the encrypted device.  Reading
\* crypto_device_available parses /etc/crypttab through destination_context,
\* which raises when there is none; the error message reads
\* crypttab_entry.source_device, an AttributeError when the entry is None.
Preflight ==
    /\ pc = "preflight"
    /\ phases' = Append(phases, "preflight")
    /\ IF crypto_device = None THEN Continue("preflight")
       ELSE IF context = "unavailable"
            THEN Raise("DestinationContextUnavailable", "preflight")
       ELSE IF ~crypto_device_available
            THEN Raise(IF crypttab_entry THEN "MissingBackupDiskError"
                       ELSE "AttributeError", "preflight")
       ELSE Continue("preflight")
    /\ UNCHANGED <<parser, cli, initial, destination_context, config, system, context, undo_stack, commands, rotations,
                   notifications, undelivered, cleanup_failures>>

\* notify_desktop() of the proc package, given whether the notification
\* could be delivered: delivery is best effort, a failure is logged and
\* nothing is raised.
NotifyDesktopRaisesWhenUndelivered(delivered) == ~delivered

NotifyDesktopRaises(delivered) == FALSE

\* notify_starting(), notify_finished(), notify_failed(): a desktop
\* notification when notifications are enabled, delivered or not.
Notify(body, delivered) ==
    /\ notifications' = IF notifications_enabled
                        THEN Append(notifications, body) ELSE notifications
    /\ undelivered' = IF notifications_enabled /\ ~delivered
                      THEN Append(undelivered, body) ELSE undelivered

\* The exception that leaves a notify method.
NotifyRaises(delivered) ==
    notifications_enabled /\ NotifyDesktopRaises(delivered)

NotifyStarting ==
    /\ pc = "notify_starting"
    /\ phases' = Append(phases, "notify_starting")
    /\ \E delivered \in BOOLEAN :
         /\ notifications_enabled \/ delivered
         /\ Notify("starting", delivered)
         /\ IF NotifyRaises(delivered)
            THEN Raise("ExternalCommandFailed", "notify_starting")
            ELSE Continue("notify_starting")
    /\ UNCHANGED <<parser, cli, initial, destination_context, config, system,
                   context, undo_stack, commands, rotations,
                   cleanup_failures>>

\* notify_finished() is called in the else clause of the try statement:
\* what it raises leaves execute_helper().
NotifyFinished ==
    /\ pc = "notify_finished"
    /\ phases' = Append(phases, "notify_finished")
    /\ \E delivered \in BOOLEAN :
         /\ notifications_enabled \/ delivered
         /\ Notify("finished", delivered)
         /\ IF NotifyRaises(delivered)
            THEN Raise("ExternalCommandFailed", "notify_finished")
            ELSE Continue("notify_finished")
    /\ UNCHANGED <<parser, cli, initial, destination_context, config, system,
                   context, undo_stack, commands, rotations,
                   cleanup_failures>>

\* notify_failed() is called in the except clause, before the bare raise
\* that raises the caught exception again: what it raises takes the place
\* of that exception.
NotifyFailed ==
    /\ pc = "notify_failed"
    /\ phases' = Append(phases, "notify_failed")
    /\ \E delivered \in BOOLEAN :
         /\ notifications_enabled \/ delivered
         /\ Notify("failed", delivered)
         /\ error' = IF NotifyRaises(delivered) THEN "ExternalCommandFailed"
                     ELSE error
         /\ pc' = Return(error')
    /\ UNCHANGED <<parser, cli, initial, destination_context, config, system,
                   context, undo_stack, commands, rotations,
                   cleanup_failures>>

-----------------------------------------------------------------------------
(* The phases.  An external command ends in one of a few ways, chosen      *)
(* nondeterministically; a command run with the default check=True raises  *)
(* ExternalCommandFailed when it exits with a nonzero status.              *)

\* unlock_device(): `if self.crypto_device_unlocked' (already unlocked).
AlreadyUnlockedIgnored == FALSE

AlreadyUnlocked == crypto_device_unlocked

\* unlock_device(): `if not self.crypto_device_unlocked' after
\* cryptdisks_start returned, given what the device reports then.
UnlockFailedNeverDetected(unlocked_now) == FALSE

UnlockFailed(unlocked_now) == ~unlocked_now

UnlockDevice ==
    /\ pc = "unlock_device"
    /\ phases' = Append(phases, "unlock_device")
    /\ IF crypto_device = None
       THEN /\ Continue("unlock_device")
            /\ UNCHANGED <<is_unlocked, commands, undo_stack>>
       ELSE IF context = "unavailable"
       THEN /\ Raise("DestinationContextUnavailable", "unlock_device")
            /\ UNCHANGED <<is_unlocked, commands, undo_stack>>
       ELSE IF AlreadyUnlocked
       THEN /\ Continue("unlock_device")
            /\ UNCHANGED <<is_unlocked, commands, undo_stack>>
       ELSE \E outcome \in {"failed", "unlocked", "still_locked"} :
            /\ commands' = Append(commands,
                    Executed(Command("cryptdisks_start", <<>>, <<crypto_device>>),
                             IF outcome = "failed" THEN 1 ELSE 0))
            /\ is_unlocked' = IF outcome = "unlocked" /\ crypttab_entry
                              THEN TRUE ELSE is_unlocked
            /\ IF outcome = "failed"
               THEN /\ Raise("ExternalCommandFailed", "unlock_device")
                    /\ UNCHANGED undo_stack
               ELSE IF UnlockFailed(crypttab_entry /\ is_unlocked')
               THEN /\ Raise("FailedToUnlockError", "unlock_device")
                    /\ UNCHANGED undo_stack
               ELSE /\ undo_stack' = Append(undo_stack,
                        Command("cryptdisks_stop", <<>>, <<crypto_device>>))
                    /\ Continue("unlock_device")
    /\ UNCHANGED <<parser, cli, initial, destination_context, config, crypttab_has_entry, is_available, mounted,
                   directory_exists, context, rotations, notifications, undelivered,
                   cleanup_failures>>

\* mount_filesystem(): `if self.mount_point_active' (already mounted).
AlreadyMounted == mount_point_active

\* mount_filesystem(): `if not self.mount_point_active' after mount
\* returned, given what mountpoint reports then.
MountFailedNeverDetected(active_now) == FALSE

MountFailed(active_now) == ~active_now

MountFilesystem ==
    /\ pc = "mount_filesystem"
    /\ phases' = Append(phases, "mount_filesystem")
    /\ IF mount_point = None
       THEN /\ Continue("mount_filesystem")
            /\ UNCHANGED <<mounted, commands, undo_stack>>
       ELSE IF context = "unavailable"
       THEN /\ Raise("DestinationContextUnavailable", "mount_filesystem")
            /\ UNCHANGED <<mounted, commands, undo_stack>>
       ELSE IF AlreadyMounted
       THEN /\ Continue("mount_filesystem")
            /\ UNCHANGED <<mounted, commands, undo_stack>>
       ELSE \E outcome \in {"failed", "mounted", "still_inactive"} :
            /\ commands' = Append(commands,
                    Executed(Command("mount", <<>>, <<mount_point>>),
                             IF outcome = "failed" THEN 1 ELSE 0))
            /\ mounted' = IF outcome = "mounted" THEN TRUE ELSE mounted
            /\ IF outcome = "failed"
               THEN /\ Raise("ExternalCommandFailed", "mount_filesystem")
                    /\ UNCHANGED undo_stack
               ELSE IF MountFailed(mounted')
               THEN /\ Raise("FailedToMountError", "mount_filesystem")
                    /\ UNCHANGED undo_stack
               ELSE /\ undo_stack' = Append(undo_stack,
                        Command("umount", <<>>, <<mount_point>>))
                    /\ Continue("mount_filesystem")
    /\ UNCHANGED <<parser, cli, initial, destination_context, config, crypttab_has_entry, is_available, is_unlocked,
                   directory_exists, context, rotations, notifications, undelivered,
                   cleanup_failures>>

\* transfer_changes(): the options of the rsync command.
rsync_options ==
    (IF dry_run THEN <<"--dry-run", "--verbose">> ELSE <<>>)
    \o <<"--delete", "--delete-excluded", "--acls", "--archive",
         "--hard-links", "--numeric-ids", "--xattrs", "--one-file-system">>

\* transfer_changes(): one filter argument (--filter=-/ PATTERN) for each
\* of the excluded roots, in their order.
rsync_filter(pattern) == <<"--filter=-/ ", pattern>>

rsync_filters ==
    [i \in 1..Len(excluded_roots) |-> rsync_filter(excluded_roots[i])]

\* transfer_changes(): the source and the destination of the rsync command.
rsync_paths ==
    <<ensure_trailing_slash(source),
      ensure_trailing_slash(expression(destination))>>

\* `with self.destination': the class whose __enter__ and __exit__ run is
\* the first in the method resolution order that defines them.
\* Destination defines them itself; ForwardedDestination inherits them, and
\* its bases are Destination, RemoteCommand and EphemeralTCPServer in that
\* order (the latter two get theirs from executor's ExternalCommand, which
\* starts the command on entry and terminates it on exit).
MethodResolutionOrder(class) ==
    IF class = "ForwardedDestination"
    THEN <<"ForwardedDestination", "Destination", "RemoteCommand",
           "EphemeralTCPServer">>
    ELSE <<"Destination">>

DefinesContextManager == {"Destination", "RemoteCommand", "EphemeralTCPServer"}

ContextManager(class) ==
    LET mro == MethodResolutionOrder(class)
        first == CHOOSE i \in 1..Len(mro) :
                    /\ mro[i] \in DefinesContextManager
                    /\ \A j \in 1..(i - 1) : mro[j] \notin DefinesContextManager
    IN  mro[first]

\* The SSH client of a ForwardedDestination (ssh_command).
TunnelCommand == Command("ssh", <<"-N", "-L">>, <<>>)

\* What entering and leaving `with self.destination' run: nothing for
\* Destination.__enter__ and Destination.__exit__, the start and the
\* termination of the SSH client otherwise.
EnterDestination ==
    IF ContextManager(destination_class) = "Destination" THEN <<>>
    ELSE <<[prog |-> "ssh", opts |-> TunnelCommand.opts, paths |-> <<>>,
            event |-> "started"]>>

ExitDestination ==
    IF ContextManager(destination_class) = "Destination" THEN <<>>
    ELSE <<[prog |-> "ssh", opts |-> TunnelCommand.opts, paths |-> <<>>,
            event |-> "terminated"]>>

\* transfer_changes(): `if cmd.returncode in (0, 23, 24)'.
ReturnCodeAcceptedOnlyZero(returncode) == returncode = 0

ReturnCodeAccepted(returncode) == returncode \in {0, 23, 24}

\* transfer_changes(): the missing destination directory is created when
\* there is a destination context to ask (whatever dry_run is), then rsync
\* runs with check=False and its exit status decides.
TransferChanges ==
    /\ pc = "transfer_changes"
    /\ phases' = Append(phases, "transfer_changes")
    /\ \E mkdir_ok \in BOOLEAN, returncode \in ReturnCodes :
         LET need_mkdir == context = "entered" /\ ~directory_exists
             mkdir == Executed(Command("mkdir", <<"-p">>,
                                       <<destination.directory>>),
                               IF mkdir_ok THEN 0 ELSE 1)
             rsync == [prog |-> "rsync", opts |-> rsync_options,
                       filters |-> rsync_filters, paths |-> rsync_paths,
                       returncode |-> returncode]
         IN  IF need_mkdir /\ ~mkdir_ok
             THEN /\ commands' = commands \o EnterDestination \o <<mkdir>>
                                        \o ExitDestination
                  /\ Raise("ExternalCommandFailed", "transfer_changes")
                  /\ UNCHANGED directory_exists
             ELSE /\ commands' = commands \o EnterDestination
                        \o (IF need_mkdir THEN <<mkdir>> ELSE <<>>)
                        \o <<rsync>> \o ExitDestination
                  /\ directory_exists' = (directory_exists \/ need_mkdir)
                  /\ IF ReturnCodeAccepted(returncode)
                     THEN Continue("transfer_changes")
                     ELSE Raise("ExternalCommandFailed", "transfer_changes")
    /\ UNCHANGED <<parser, cli, initial, destination_context, config, crypttab_has_entry, is_available, is_unlocked,
                   mounted, context, undo_stack, rotations, notifications, undelivered,
                   cleanup_failures>>

\* create_snapshot(): the cp command is composed first (parent_directory
\* may raise), logged only on a dry run, and otherwise run in the
\* destination context.
CreateSnapshot ==
    /\ pc = "create_snapshot"
    /\ phases' = Append(phases, "create_snapshot")
    /\ LET parent == parent_directory(destination.directory)
           snapshot == path_join(parent, Timestamp)
           cp == Command("cp", <<"--archive", "--link">>,
                         <<destination.directory, snapshot>>)
       IN  IF parent = <<>>
           THEN /\ Raise("ParentDirectoryUnavailable", "create_snapshot")
                /\ UNCHANGED commands
           ELSE IF dry_run
           THEN /\ Continue("create_snapshot")
                /\ UNCHANGED commands
           ELSE IF context = "unavailable"
           THEN /\ Raise("DestinationContextUnavailable", "create_snapshot")
                /\ UNCHANGED commands
           ELSE \E ok \in BOOLEAN :
                /\ commands' = Append(commands,
                                      Executed(cp, IF ok THEN 0 ELSE 1))
                /\ IF ok THEN Continue("create_snapshot")
                   ELSE Raise("ExternalCommandFailed", "create_snapshot")
    /\ UNCHANGED <<parser, cli, initial, destination_context, config, system, context, undo_stack, rotations,
                   notifications, undelivered, cleanup_failures>>

\* rotate_snapshots(): the call of the rotation service, with the arguments
\* of RotateBackups() and of Location(), and whether it raised.
RotationCallWithoutIonice(parent, ok) ==
    [directory |-> parent, rotation_scheme |-> rotation_scheme,
     dry_run |-> dry_run, io_scheduling_class |-> None, failed |-> ~ok]

RotationCall(parent, ok) ==
    [directory |-> parent, rotation_scheme |-> rotation_scheme,
     dry_run |-> dry_run, io_scheduling_class |-> ionice, failed |-> ~ok]

\* rotate_snapshots(): Location(context=..., directory=...) reads
\* destination_context, then parent_directory; the rotation itself is the
\* rotate-backups package's and may raise.
RotateSnapshots ==
    /\ pc = "rotate_snapshots"
    /\ phases' = Append(phases, "rotate_snapshots")
    /\ LET parent == parent_directory(destination.directory)
       IN  IF context = "unavailable"
           THEN /\ Raise("DestinationContextUnavailable", "rotate_snapshots")
                /\ UNCHANGED rotations
           ELSE IF parent = <<>>
           THEN /\ Raise("ParentDirectoryUnavailable", "rotate_snapshots")
                /\ UNCHANGED rotations
           ELSE \E ok \in BOOLEAN :
                /\ rotations' = Append(rotations, RotationCall(parent, ok))
                /\ IF ok THEN Continue("rotate_snapshots")
                   ELSE Raise("RotateBackupsError", "rotate_snapshots")
    /\ UNCHANGED <<parser, cli, initial, destination_context, config, system, context, undo_stack, commands,
                   notifications, undelivered, cleanup_failures>>

-----------------------------------------------------------------------------
(* Leaving the `with' block: the execution context's cleanup.              *)

Reverse(s) == [i \in 1..Len(s) |-> s[Len(s) + 1 - i]]

\* The commands the context runs when its scope exits, given the undo
\* stack and the positions (in running order) of the commands that fail:
\* all of them, last registered first.
DrainedCommands(stack, failed) ==
    [i \in 1..Len(stack) |->
        Executed(Reverse(stack)[i], IF i \in failed THEN 1 ELSE 0)]

\* The exception that leaves the scope, given the one that entered it and
\* the cleanup commands that failed: cleanup failures are logged only.
ErrorAfterCleanup(e, failures) == e

ExitContext ==
    /\ pc = "exit_context"
    /\ phases' = Append(phases, "unwind")
    /\ \E failed \in SUBSET (1..Len(undo_stack)) :
         LET drained == DrainedCommands(undo_stack, failed)
             succeeded(prog) == \E i \in 1..Len(drained) :
                    drained[i].prog = prog /\ drained[i].returncode = 0
             failures == {drained[i] : i \in {j \in 1..Len(drained) :
                                                 drained[j].returncode # 0}}
         IN  /\ commands' = commands \o drained
             /\ cleanup_failures' = failures
             /\ is_unlocked' = IF succeeded("cryptdisks_stop") THEN FALSE
                               ELSE is_unlocked
             /\ mounted' = IF succeeded("umount") THEN FALSE ELSE mounted
             /\ error' = ErrorAfterCleanup(error, failures)
    /\ undo_stack' = <<>>
    /\ pc' = "done"
    /\ UNCHANGED <<parser, cli, initial, destination_context, config, crypttab_has_entry, is_available,
                   directory_exists, context, rotations, notifications, undelivered>>

-----------------------------------------------------------------------------
Next ==
    \/ Execute
    \/ Preflight
    \/ NotifyStarting
    \/ UnlockDevice
    \/ MountFilesystem
    \/ TransferChanges
    \/ CreateSnapshot
    \/ RotateSnapshots
    \/ NotifyFinished
    \/ NotifyFailed
    \/ ExitContext

Spec == Init /\ [][Next]_vars

\* execute() runs in one thread and every statement of it is a call that
\* returns or raises when the external command, the notification or the
\* rotation it waits for returns: a run that can take a step takes one.
SpecFair == Spec /\ WF_vars(Next)

-----------------------------------------------------------------------------
(* The expressions given to the parser: addresses composed from parts in   *)
(* the three remote forms, and every string over a small alphabet, alone   *)
(* and after rsync://.                                                     *)

MaxLen == 4

Alphabet == {"a", "@", ":", "/", "8", "\n"}
Strings(n) == UNION {[1..k -> Alphabet] : k \in 0..n}

Usernames == {<<>>, <<"u">>}
PortNumbers == {<<>>, <<"2", "2">>, <<"8", "7", "3">>}
\* The directory part of an address; "absent" leaves the slash out too.
DirectoryParts ==
    {<<>>, <<"d">>, <<"/", "d">>, <<"d", "/">>, <<"d", "@", "x", ":", "y">>}

UserAt(a) == IF a.username # <<>> THEN a.username \o <<"@">> ELSE <<>>
SlashDirectory(a) == IF a.has_directory THEN <<"/">> \o a.directory ELSE <<>>

\* The expression of an address of the given form.
Compose(a) ==
    CASE a.form = "ssh" ->
            UserAt(a) \o a.hostname \o <<":">> \o a.directory
      [] a.form = "simple" ->
            UserAt(a) \o a.hostname \o <<":", ":">> \o a.module
            \o SlashDirectory(a)
      [] a.form = "advanced" ->
            RsyncScheme \o UserAt(a) \o a.hostname
            \o (IF a.port # <<>> THEN <<":">> \o a.port ELSE <<>>)
            \o <<"/">> \o a.module \o SlashDirectory(a)
      [] a.form = "raw" -> a.directory

Addresses ==
    {a \in [form : {"ssh", "simple", "advanced"}, username : Usernames,
            hostname : {<<"h">>}, port : PortNumbers, module : {<<"m">>},
            has_directory : BOOLEAN, directory : DirectoryParts] :
        /\ a.form # "advanced" => a.port = <<>>
        /\ a.form = "ssh" => a.module = <<"m">> /\ a.has_directory
        /\ ~a.has_directory => a.directory = <<>>}
    \cup
    {[form |-> "raw", username |-> <<>>, hostname |-> <<>>, port |-> <<>>,
      module |-> <<>>, has_directory |-> TRUE, directory |-> prefix \o s] :
        prefix \in {<<>>, RsyncScheme}, s \in Strings(MaxLen)}

\* The execute() part of the state while no run is going on.
RunIdle ==
    /\ backup_enabled = TRUE
    /\ snapshot_enabled = TRUE
    /\ rotate_enabled = TRUE
    /\ dry_run = FALSE
    /\ notifications_enabled = TRUE
    /\ crypto_device = None
    /\ mount_point = None
    /\ destination = [NewDestination EXCEPT !.directory = <<"/">>]
    /\ Defaults
    /\ crypttab_has_entry = FALSE
    /\ is_available = FALSE
    /\ is_unlocked = FALSE
    /\ mounted = FALSE
    /\ directory_exists = FALSE
    /\ pc = "idle"
    /\ context = "none"
    /\ undo_stack = <<>>
    /\ commands = <<>>
    /\ rotations = <<>>
    /\ notifications = <<>>
    /\ undelivered = <<>>
    /\ phases = <<>>
    /\ cleanup_failures = {}
    /\ error = "none"
    /\ initial = [is_unlocked |-> FALSE, mounted |-> FALSE,
                  directory_exists |-> FALSE]
    /\ destination_context = NoContext

InitParse ==
    /\ RunIdle
    /\ CliIdle
    /\ ObjectIdle
    /\ address \in Addresses
    /\ value = Compose(address)
    /\ parsed = [error |-> "none"]
    /\ serialized = <<>>
    /\ reparsed = [error |-> "none"]
    /\ parse_pc = "new"

\* Destination(expression=value): the setter on a new object.
SetExpression ==
    /\ parse_pc = "new"
    /\ parsed' = set_expression(NewDestination, value)
    /\ parse_pc' = "parsed"
    /\ UNCHANGED <<address, value, serialized, reparsed, config, system, run,
                   cli, keywords, object, read, object_pc>>

\* A read of the expression property of the object that was built.
GetExpression ==
    /\ parse_pc = "parsed"
    /\ parsed.error = "none"
    /\ serialized' = expression(parsed.destination)
    /\ parse_pc' = "serialized"
    /\ UNCHANGED <<address, value, parsed, reparsed, config, system, run, cli,
                   keywords, object, read, object_pc>>

\* Destination(expression=...) of the expression that was read.
SetExpressionAgain ==
    /\ parse_pc = "serialized"
    /\ reparsed' = set_expression(NewDestination, serialized)
    /\ parse_pc' = "reparsed"
    /\ UNCHANGED <<address, value, parsed, serialized, config, system, run,
                   cli, keywords, object, read, object_pc>>

NextParse ==
    \/ SetExpression
    \/ GetExpression
    \/ SetExpressionAgain

SpecParse == InitParse /\ [][NextParse]_vars

-----------------------------------------------------------------------------
(* Destination(...) from keyword arguments, with or without an expression, *)
(* and reads of the properties of the object that was built.               *)

KeywordExpressions ==
    {<<>>, <<"/", "d">>, <<"h", ":", "d">>, <<"h", ":", ":", "m">>,
     RsyncScheme \o <<"h", ":", "2", "2", "/", "m", "/", "d">>}

KeywordPorts == {0, 22, RSYNCD_PORT}

KeywordDirectories ==
    {<<>>, <<"/">>, <<"/", "/">>, <<"l">>, <<"b", "/", "l">>,
     <<"/", "l">>, <<"/", "b", "/", "l">>, <<"/", "b", "/", "l", "/">>}

\* The keyword arguments: an expression alone, or any of the other
\* properties without one.
Keywords ==
    {k \in [has_expression : BOOLEAN, expression : KeywordExpressions,
            username : Usernames, hostname : Hostnames,
            port_number : KeywordPorts, module : Modules,
            directory : KeywordDirectories] :
        IF k.has_expression
        THEN /\ k.username = <<>> /\ k.hostname = <<>> /\ k.module = <<>>
             /\ k.directory = <<>> /\ k.port_number = RSYNCD_PORT
        ELSE k.expression = <<>>}

\* The required property expression has no value (the check the
\* initializer of PropertyManager makes of required properties).
RequiredNeverMissing(d) == FALSE

RequiredMissing(d) == expression(d) = None

\* Destination(**keywords): the keyword arguments are assigned, the
\* expression through its setter, then the required property is checked.
Destination(k) ==
    LET given == [username |-> k.username, hostname |-> k.hostname,
                  port_number |-> k.port_number, module |-> k.module,
                  directory |-> k.directory]
        set == IF k.has_expression THEN set_expression(given, k.expression)
               ELSE [error |-> "none", pattern |-> "", destination |-> given]
    IN  IF set.error # "none"
        THEN [error |-> set.error, destination |-> given]
        ELSE IF RequiredMissing(set.destination)
        THEN [error |-> "TypeError", destination |-> set.destination]
        ELSE [error |-> "none", destination |-> set.destination]

InitObject ==
    /\ RunIdle
    /\ CliIdle
    /\ address = [form |-> "none"]
    /\ value = <<>>
    /\ parsed = [error |-> "none"]
    /\ serialized = <<>>
    /\ reparsed = [error |-> "none"]
    /\ parse_pc = "idle"
    /\ keywords \in Keywords
    /\ object = [error |-> "none"]
    /\ read = NoRead
    /\ object_pc = "new"

Construct ==
    /\ object_pc = "new"
    /\ object' = Destination(keywords)
    /\ object_pc' = "constructed"
    /\ UNCHANGED <<address, value, parsed, serialized, reparsed, parse_pc,
                   keywords, read, config, system, run, cli>>

\* A read of the expression property.
ReadExpression ==
    /\ object_pc = "constructed"
    /\ object.error = "none"
    /\ read' = [property |-> "expression", raised |-> "none",
                value |-> expression(object.destination)]
    /\ object_pc' = "read"
    /\ UNCHANGED <<address, value, parsed, serialized, reparsed, parse_pc,
                   keywords, object, config, system, run, cli>>

\* A read of the parent_directory property: ParentDirectoryUnavailable
\* when the directory name is empty.
ReadParentDirectory ==
    /\ object_pc = "constructed"
    /\ object.error = "none"
    /\ LET directory == parent_directory(object.destination.directory)
       IN  read' = [property |-> "parent_directory",
                    raised |-> IF directory = <<>>
                               THEN "ParentDirectoryUnavailable"
                               ELSE "none",
                    value |-> directory]
    /\ object_pc' = "read"
    /\ UNCHANGED <<address, value, parsed, serialized, reparsed, parse_pc,
                   keywords, object, config, system, run, cli>>

\* An assignment to the expression property of the object that was built:
\* the setter, which leaves the object alone when it raises.
AssignExpression ==
    /\ object_pc = "constructed"
    /\ object.error = "none"
    /\ \E assigned \in KeywordExpressions :
         LET result == set_expression(object.destination, assigned)
         IN  read' = [property |-> "expression.setter",
                      assigned |-> assigned,
                      raised |-> result.error,
                      value |-> result.destination]
    /\ object_pc' = "assigned"
    /\ UNCHANGED <<address, value, parsed, serialized, reparsed, parse_pc,
                   keywords, object, config, system, run, cli>>

NextObject ==
    \/ Construct
    \/ ReadExpression
    \/ ReadParentDirectory
    \/ AssignExpression

SpecObject == InitObject /\ [][NextObject]_vars

-----------------------------------------------------------------------------
(* execute() of a backup whose source, excluded roots, I/O scheduling      *)
(* class, rotation scheme and destination (any of the four forms, plain or *)
(* forwarded through an SSH tunnel) are chosen, without an encrypted       *)
(* device or a mount point.                                                *)

TransferDirectories ==
    {<<>>, <<"/">>, <<"l">>, <<"/", "b", "/", "l">>,
     <<"/", "b", "/", "l", "/">>}

InitTransfer ==
    /\ ParserIdle
    /\ CliIdle
    /\ backup_enabled = TRUE
    /\ snapshot_enabled \in BOOLEAN
    /\ rotate_enabled \in BOOLEAN
    /\ dry_run \in BOOLEAN
    /\ notifications_enabled = FALSE
    /\ crypto_device = None
    /\ mount_point = None
    /\ destination \in [username : Usernames, hostname : Hostnames,
                        port_number : {RSYNCD_PORT}, module : Modules,
                        directory : TransferDirectories]
    /\ destination.hostname # <<>> \/ destination.directory # <<>>
    /\ destination.hostname = <<>> => destination.username = <<>>
    /\ source \in Sources
    /\ excluded_roots \in ExcludedRoots
    /\ ionice \in IoniceClasses
    /\ rotation_scheme \in RotationSchemes
    /\ destination_class \in DestinationClasses
    \* A ForwardedDestination is the destination of an rsync daemon module.
    /\ destination_class = "ForwardedDestination"
          => destination.hostname # <<>> /\ destination.module # <<>>
    /\ crypttab_has_entry = FALSE
    /\ is_available = FALSE
    /\ is_unlocked = FALSE
    /\ mounted = FALSE
    /\ directory_exists \in BOOLEAN
    /\ pc = "execute"
    /\ context = "none"
    /\ undo_stack = <<>>
    /\ commands = <<>>
    /\ rotations = <<>>
    /\ notifications = <<>>
    /\ undelivered = <<>>
    /\ phases = <<>>
    /\ cleanup_failures = {}
    /\ error = "none"
    /\ initial = [is_unlocked |-> is_unlocked, mounted |-> mounted,
                  directory_exists |-> directory_exists]
    /\ destination_context = NoContext

SpecTransfer == InitTransfer /\ [][Next]_vars

-----------------------------------------------------------------------------
(* The command line interface (rsync_system_backup/cli.py).  program_opts  *)
(* is a dictionary: a function from the keys that are set.  The program    *)
(* built from program_opts runs execute() on a destination system whose    *)
(* state is chosen when the run starts.                                    *)

MaxOptions == 3

OptionNames == {"-b", "-s", "-r", "-n", "-h", "-c", "-x", "--multi-fs"}

\* The values given with --crypto and with --exclude.
CryptoArgument == <<"c">>
ExcludeArgument == "/x/"

\* The positional arguments: none, a destination, a source and a
\* destination, one too many.
DestinationArguments ==
    {<<>>, <<"/", "b", "/", "l">>, <<"h", ":", ":", "m">>}

ArgumentLists ==
    {<<>>}
    \cup {<<d>> : d \in DestinationArguments}
    \cup {<<<<"/", "s">>, d>> : d \in DestinationArguments}
    \cup {<<<<"/", "s">>, <<"/", "s">>, <<"/", "b", "/", "l">> >>}

\* The values of $RSYNC_MODULE_PATH (empty: not set, or set to nothing).
EnvironmentValues == {<<>>, <<"/", "b", "/", "e">>}

CommandLines == UNION {[1..k -> OptionNames] : k \in 0..MaxOptions}

Actions == {"backup_enabled", "snapshot_enabled", "rotate_enabled"}

\* options[key] = item
SetItem(opts, key, item) ==
    [k \in DOMAIN opts \cup {key} |-> IF k = key THEN item ELSE opts[k]]

\* options.setdefault(key, default)
SetDefault(opts, key, default) ==
    [k \in DOMAIN opts \cup {key} |->
        IF k \in DOMAIN opts THEN opts[k] ELSE default]

RECURSIVE SetDefaults(_, _, _)
SetDefaults(opts, keys, default) ==
    IF keys = {} THEN opts
    ELSE LET key == CHOOSE k \in keys : TRUE
         IN  SetDefaults(SetDefault(opts, key, default), keys \ {key},
                         default)

RECURSIVE SetItems(_, _, _)
SetItems(opts, keys, item) ==
    IF keys = {} THEN opts
    ELSE LET key == CHOOSE k \in keys : TRUE
         IN  SetItems(SetItem(opts, key, item), keys \ {key}, item)

\* enable_explicit_action(): the action is enabled and the other actions
\* are disabled unless they were set before.
enable_explicit_action_overriding(opts, explicit_action) ==
    SetItems(SetItem(opts, explicit_action, TRUE),
             Actions \ {explicit_action}, FALSE)

enable_explicit_action(opts, explicit_action) ==
    SetDefaults(SetItem(opts, explicit_action, TRUE),
                Actions \ {explicit_action}, FALSE)

\* The action an option enables.
ExplicitAction(option) ==
    CASE option = "-b" -> "backup_enabled"
      [] option = "-s" -> "snapshot_enabled"
      [] option = "-r" -> "rotate_enabled"

\* The subclasses of RsyncSystemBackupError.
RsyncSystemBackupErrors ==
    {"InvalidDestinationError", "MissingBackupDiskError",
     "FailedToUnlockError", "FailedToMountError",
     "DestinationContextUnavailable", "ParentDirectoryUnavailable"}

\* The exit status main() gives an exception of the run.
ExitStatusWhateverTerminal(e) ==
    IF e \in RsyncSystemBackupErrors /\ e = "MissingBackupDiskError"
    THEN 0 ELSE 1

ExitStatus(e) ==
    IF e \in RsyncSystemBackupErrors /\ e = "MissingBackupDiskError"
       /\ ~terminal
    THEN 0 ELSE 1

\* The properties that keyword arguments of the RsyncSystemBackup
\* initializer may set; any other keyword is a TypeError.
Properties ==
    {"backup_enabled", "crypto_device", "destination", "dry_run",
     "excluded_roots", "ionice", "mount_point", "notifications_enabled",
     "rotate_enabled", "rotation_scheme", "snapshot_enabled", "source",
     "source_context", "sudo_enabled"}

UnexpectedKeywords(opts) == DOMAIN opts \ Properties

\* The value of a keyword argument, or the default of the property.
Get(opts, key, default) == IF key \in DOMAIN opts THEN opts[key] ELSE default

\* Destination(expression=...) as main() and the destination property
\* call it.
DestinationOf(text) ==
    Destination([has_expression |-> TRUE, expression |-> text,
                 username |-> <<>>, hostname |-> <<>>,
                 port_number |-> RSYNCD_PORT, module |-> <<>>,
                 directory |-> <<>>])

\* The destination property when none was set: the destination named by
\* $RSYNC_MODULE_PATH.
destination_ignoring_environment(rsync_module_path) ==
    DestinationOf(<<"/">>)

destination_from_environment(rsync_module_path) ==
    DestinationOf(rsync_module_path)

InitCli ==
    /\ RunIdle
    /\ ParserIdle
    /\ argv \in CommandLines
    /\ options = argv
    /\ arguments \in ArgumentLists
    /\ environ \in EnvironmentValues
    /\ terminal \in BOOLEAN
    /\ program_opts = <<>>
    /\ cli_pc = "options"
    /\ exit_status = -1

\* main(): one turn of the loop over the options.  --help shows the usage
\* message and returns.
HandleOption ==
    /\ cli_pc = "options"
    /\ options # <<>>
    /\ LET option == Head(options)
       IN  /\ program_opts' =
                IF option \in {"-b", "-s", "-r"}
                THEN enable_explicit_action(program_opts,
                                            ExplicitAction(option))
                ELSE IF option = "-n"
                THEN SetItem(program_opts, "dry_run", TRUE)
                ELSE IF option = "-c"
                THEN SetItem(program_opts, "crypto_device", CryptoArgument)
                ELSE IF option = "-x"
                THEN SetItem(program_opts, "exclude_list",
                             Append(Get(program_opts, "exclude_list", <<>>),
                                    ExcludeArgument))
                ELSE IF option = "--multi-fs"
                THEN SetItem(program_opts, "multi_fs", TRUE)
                ELSE program_opts
           /\ cli_pc' = IF option = "-h" THEN "usage" ELSE "options"
           /\ exit_status' = IF option = "-h" THEN 0 ELSE exit_status
    /\ options' = Tail(options)
    /\ UNCHANGED <<argv, arguments, environ, terminal, parser, config,
                   system, run>>

\* main(): the positional arguments, after the loop.  More than two are an
\* error, as is a destination that cannot be parsed; without a destination
\* and without $RSYNC_MODULE_PATH the usage message is shown.
HandleArguments ==
    /\ cli_pc = "options"
    /\ options = <<>>
    /\ LET with_source ==
              IF Len(arguments) = 2
              THEN SetItem(program_opts, "source", arguments[1])
              ELSE program_opts
           given == DestinationOf(arguments[Len(arguments)])
       IN  IF Len(arguments) > 2
           THEN /\ cli_pc' = "rejected"
                /\ exit_status' = 1
                /\ program_opts' = program_opts
           ELSE IF Len(arguments) > 0
           THEN IF given.error # "none"
                THEN /\ cli_pc' = "rejected"
                     /\ exit_status' = 1
                     /\ program_opts' = with_source
                ELSE /\ cli_pc' = "run"
                     /\ exit_status' = exit_status
                     /\ program_opts' = SetItem(with_source, "destination",
                                                given.destination)
           ELSE /\ cli_pc' = IF environ # <<>> THEN "run" ELSE "usage"
                /\ exit_status' = IF environ # <<>> THEN exit_status ELSE 0
                /\ program_opts' = program_opts
    /\ UNCHANGED <<argv, options, arguments, environ, terminal, parser,
                   config, system, run>>

\* main(): the program is built from program_opts and execute() starts.
\* The initializer raises TypeError for a keyword that is no property; the
\* destination that is not given is Destination(expression=
\* $RSYNC_MODULE_PATH); notifications_enabled defaults to not dry_run.
RunProgram ==
    /\ cli_pc = "run"
    /\ LET opts == SetItem(program_opts, "source_context", TRUE)
           default == destination_from_environment(environ)
           raised == IF UnexpectedKeywords(opts) # {} THEN "TypeError"
                     ELSE IF "destination" \in DOMAIN opts THEN "none"
                     ELSE default.error
       IN  /\ program_opts' = opts
           /\ IF raised # "none"
              THEN /\ error' = raised
                   /\ cli_pc' = "raised"
                   /\ UNCHANGED <<config, system, pc, initial>>
              ELSE /\ error' = error
                   /\ cli_pc' = "executing"
                   /\ pc' = "execute"
                   /\ backup_enabled' = Get(opts, "backup_enabled", TRUE)
                   /\ snapshot_enabled' = Get(opts, "snapshot_enabled", TRUE)
                   /\ rotate_enabled' = Get(opts, "rotate_enabled", TRUE)
                   /\ dry_run' = Get(opts, "dry_run", FALSE)
                   /\ notifications_enabled' =
                         Get(opts, "notifications_enabled",
                             ~Get(opts, "dry_run", FALSE))
                   /\ crypto_device' = Get(opts, "crypto_device", None)
                   /\ mount_point' = Get(opts, "mount_point", None)
                   /\ destination' =
                         Get(opts, "destination", default.destination)
                   /\ source' = Get(opts, "source", <<"/">>)
                   /\ excluded_roots' =
                         Get(opts, "excluded_roots", DEFAULT_EXCLUDED_ROOTS)
                   /\ ionice' = Get(opts, "ionice", None)
                   /\ rotation_scheme' =
                         Get(opts, "rotation_scheme", DEFAULT_ROTATION_SCHEME)
                   /\ destination_class' = "Destination"
                   \* The destination system as the run finds it.
                   /\ crypttab_has_entry' \in BOOLEAN
                   /\ is_available' \in BOOLEAN
                   /\ is_unlocked' \in BOOLEAN
                   /\ mounted' = FALSE
                   /\ directory_exists' \in BOOLEAN
                   /\ crypto_device' = None => ~crypttab_has_entry'
                   /\ ~crypttab_has_entry' =>
                         ~is_available' /\ ~is_unlocked'
                   /\ initial' = [is_unlocked |-> is_unlocked',
                                  mounted |-> mounted',
                                  directory_exists |-> directory_exists']
    /\ UNCHANGED <<argv, options, arguments, environ, terminal, exit_status,
                   parser, context, undo_stack, commands, rotations,
                   notifications, undelivered, phases, cleanup_failures,
                   destination_context>>

\* main(): execute() returned or raised, or the initializer raised; the
\* exception decides the exit status.
ExitProgram ==
    /\ \/ cli_pc = "executing" /\ pc = "done"
       \/ cli_pc = "raised"
    /\ exit_status' = IF error = "none" THEN 0 ELSE ExitStatus(error)
    /\ cli_pc' = "finished"
    /\ UNCHANGED <<argv, options, arguments, environ, terminal, program_opts,
                   parser, config, system, run>>

NextCli ==
    \/ HandleOption
    \/ HandleArguments
    \/ RunProgram
    \/ Next
    \/ ExitProgram

SpecCli == InitCli /\ [][NextCli]_vars

-----------------------------------------------------------------------------
(* Properties of a run of execute().                                       *)

Done == pc = "done"

Performed(phase) == \E i \in 1..Len(phases) : phases[i] = phase

Progs(log) == [i \in 1..Len(log) |-> log[i].prog]

Ran(prog) == \E i \in 1..Len(commands) : commands[i].prog = prog

\* The command prog ran and exited with status 0.
RanWell(prog) ==
    \E i \in 1..Len(commands) :
        commands[i].prog = prog /\ commands[i].returncode = 0

IsCleanup(command) == command.prog \in {"cryptdisks_stop", "umount"}

\* The fixed order of the phases; both end notifications are one phase.
PhaseOrder ==
    <<"preflight", "notify_starting", "unlock_device", "mount_filesystem",
      "transfer_changes", "create_snapshot", "rotate_snapshots",
      "notify_end", "unwind">>

PhaseRank(phase) ==
    LET name == IF phase \in {"notify_finished", "notify_failed"}
                THEN "notify_end" ELSE phase
    IN  CHOOSE i \in 1..Len(PhaseOrder) : PhaseOrder[i] = name

\* C1: in every run of execute() the phases performed are a subsequence of
\* preflight, start notification, unlock, mount, transfer, snapshot,
\* rotate, end notification, unwind: each performed phase comes later in
\* that list than every phase performed before it, so none is repeated.
C1_PhasesInFixedOrder ==
    /\ \A i \in 1..Len(phases) :
          \E k \in 1..Len(PhaseOrder) : PhaseRank(phases[i]) = k
    /\ \A i, j \in 1..Len(phases) :
          i < j => PhaseRank(phases[i]) < PhaseRank(phases[j])

\* A complete run: every one of the nine phases was performed.
C1_Witness == Done /\ Len(phases) = Len(PhaseOrder)

\* The phase after the given one, "" when it was the last or not performed.
PhaseAfter(phase) ==
    IF \E i \in 1..(Len(phases) - 1) : phases[i] = phase
    THEN phases[(CHOOSE i \in 1..(Len(phases) - 1) : phases[i] = phase) + 1]
    ELSE ""

\* unlock_device() returned normally: mount_filesystem() was called next.
UnlockReturned == PhaseAfter("unlock_device") = "mount_filesystem"

\* mount_filesystem() returned normally: the try block went on or ended
\* without notify_failed().
MountReturned == PhaseAfter("mount_filesystem") \notin {"", "notify_failed"}

\* The cleanup commands the run has to run at the end, in order: a command
\* is registered when cryptdisks_start or mount exited with status 0 and
\* the phase returned normally.
ExpectedCleanup ==
    (IF RanWell("mount") /\ MountReturned THEN <<"umount">> ELSE <<>>)
    \o (IF RanWell("cryptdisks_start") /\ UnlockReturned
        THEN <<"cryptdisks_stop">> ELSE <<>>)

\* C2: the cleanup commands registered by a successful unlock or mount are
\* each run exactly once, at the exit of the scope (after every other
\* command, none before), unmount before lock, whether the run raised or
\* not.
C2_CleanupRunOnceInReverse ==
    /\ ~Done => SelectSeq(commands, IsCleanup) = <<>>
    /\ Done /\ context = "entered" =>
          /\ Progs(SelectSeq(commands, IsCleanup)) = ExpectedCleanup
          /\ \A i, j \in 1..Len(commands) :
                i < j /\ IsCleanup(commands[i]) => IsCleanup(commands[j])
          /\ undo_stack = <<>>

\* A run that unlocked and mounted, failed in a later phase and still ran
\* umount, then cryptdisks_stop.
C2_Witness ==
    /\ Done
    /\ error = "ExternalCommandFailed"
    /\ Performed("create_snapshot")
    /\ Progs(SelectSeq(commands, IsCleanup)) = <<"umount", "cryptdisks_stop">>

\* C3: with crypto_device set and the device not available, execute()
\* raises MissingBackupDiskError without having notified, unlocked,
\* mounted, transferred, snapshotted or rotated, and without a failure
\* notification.  (crypto_device_available is read through the destination
\* context, so the case needs one; the run never changes is_available.)
C3_MissingDiskRaised ==
    Done /\ context = "entered" /\ crypto_device # None
         /\ ~crypto_device_available
    => /\ error = "MissingBackupDiskError"
       /\ phases = <<"preflight", "unwind">>
       /\ notifications = <<>>
       /\ commands = <<>>
       /\ rotations = <<>>

\* The part of C3 that holds whatever the error raised is: nothing is done
\* and nothing is notified.
C3_NothingDone ==
    Done /\ context = "entered" /\ crypto_device # None
         /\ ~crypto_device_available
    => /\ error \in {"MissingBackupDiskError", "AttributeError"}
       /\ phases = <<"preflight", "unwind">>
       /\ notifications = <<>>
       /\ commands = <<>>
       /\ rotations = <<>>

RsyncRuns == SelectSeq(commands, LAMBDA c : c.prog = "rsync")

\* C4: rsync exiting with status 0, 23 or 24 lets the transfer succeed and
\* the run go on with the next enabled phase (snapshot, rotate, or the
\* finished notification); with any other status the transfer raises
\* ExternalCommandFailed and neither snapshot nor rotation is performed.
C4_ReturnCodeDecides ==
    /\ Len(RsyncRuns) <= 1
    /\ \A i \in 1..Len(RsyncRuns) :
          IF RsyncRuns[i].returncode \in {0, 23, 24}
          THEN /\ phases[Len(phases)] = "transfer_changes" =>
                    /\ error = "none"
                    /\ pc = IF snapshot_enabled THEN "create_snapshot"
                            ELSE IF rotate_enabled THEN "rotate_snapshots"
                            ELSE "notify_finished"
               /\ Done /\ snapshot_enabled => Performed("create_snapshot")
               /\ Done /\ ~snapshot_enabled /\ rotate_enabled
                     => Performed("rotate_snapshots")
          ELSE /\ error = "ExternalCommandFailed"
               /\ ~Performed("create_snapshot")
               /\ ~Performed("rotate_snapshots")
               /\ ~Ran("cp")
               /\ rotations = <<>>
               /\ PhaseAfter("transfer_changes") \in {"", "notify_failed"}

\* A partial transfer (status 24) after which snapshot and rotation both
\* ran and the run ended without an error.
C4_Witness ==
    /\ Done /\ error = "none"
    /\ Len(RsyncRuns) = 1 /\ RsyncRuns[1].returncode = 24
    /\ RanWell("cp") /\ rotations # <<>>

\* C5: on a dry run rsync gets the dry-run flag, no cp is run and no
\* destination directory is created.
C5_DryRunChangesNothing ==
    dry_run =>
       /\ \A i \in 1..Len(RsyncRuns) :
             \E k \in 1..Len(RsyncRuns[i].opts) :
                 RsyncRuns[i].opts[k] = "--dry-run"
       /\ ~Ran("cp")
       /\ ~Ran("mkdir")
       /\ directory_exists = initial.directory_exists

\* The positions of execute() after the given phase's place in the order.
PositionsAfter(phase) ==
    {PhaseOrder[k] : k \in (PhaseRank(phase) + 1)..Len(PhaseOrder)}
    \cup {"notify_finished", "exit_context", "done"}

\* execute() is past the place of the given phase and nothing has raised.
PassedWell(phase) == error = "none" /\ pc \in PositionsAfter(phase)

\* C6: when the earlier phases succeeded, the transfer is performed iff
\* backup_enabled, the snapshot iff snapshot_enabled and the rotation iff
\* rotate_enabled; a disabled phase is never performed and runs no command.
C6_PhasesGatedByFlags ==
    /\ PassedWell("transfer_changes")
          => (Performed("transfer_changes") <=> backup_enabled)
    /\ PassedWell("create_snapshot")
          => (Performed("create_snapshot") <=> snapshot_enabled)
    /\ PassedWell("rotate_snapshots")
          => (Performed("rotate_snapshots") <=> rotate_enabled)
    /\ ~backup_enabled
          => ~Performed("transfer_changes") /\ ~Ran("rsync") /\ ~Ran("mkdir")
    /\ ~snapshot_enabled => ~Performed("create_snapshot") /\ ~Ran("cp")
    /\ ~rotate_enabled => ~Performed("rotate_snapshots") /\ rotations = <<>>

\* A successful run with the snapshot disabled between an enabled transfer
\* and an enabled rotation.
C6_Witness ==
    /\ Done /\ error = "none"
    /\ backup_enabled /\ ~snapshot_enabled /\ rotate_enabled
    /\ RanWell("rsync") /\ rotations # <<>>

\* The position in the command log of the first run of prog (0: none).
FirstRun(prog) ==
    IF Ran(prog)
    THEN CHOOSE i \in 1..Len(commands) :
            /\ commands[i].prog = prog
            /\ \A j \in 1..(i - 1) : commands[j].prog # prog
    ELSE 0

\* C7: a device found unlocked is neither unlocked nor locked by the run,
\* a mount point found mounted is neither mounted nor unmounted; lock and
\* unmount are run only after this run's own successful unlock or mount.
C7_OnlyOwnResourcesReleased ==
    /\ crypto_device # None /\ crypttab_entry /\ initial.is_unlocked
          => ~Ran("cryptdisks_start") /\ ~Ran("cryptdisks_stop")
    /\ mount_point # None /\ initial.mounted
          => ~Ran("mount") /\ ~Ran("umount")
    /\ Ran("cryptdisks_stop")
          => /\ ~initial.is_unlocked
             /\ RanWell("cryptdisks_start")
             /\ FirstRun("cryptdisks_start") < FirstRun("cryptdisks_stop")
    /\ Ran("umount")
          => /\ ~initial.mounted
             /\ RanWell("mount")
             /\ FirstRun("mount") < FirstRun("umount")

\* A run that found the device unlocked and the filesystem mounted, made
\* its transfer and ended.
C7_Witness ==
    /\ Done /\ context = "entered"
    /\ crypto_device # None /\ initial.is_unlocked
    /\ mount_point # None /\ initial.mounted
    /\ RanWell("rsync")
    /\ is_unlocked /\ mounted

LastCommand == commands[Len(commands)]

\* mount has just returned with status 0 and the mount point is inactive.
MountReturnedInactive ==
    /\ phases # <<>> /\ phases[Len(phases)] = "mount_filesystem"
    /\ commands # <<>> /\ LastCommand.prog = "mount"
    /\ LastCommand.returncode = 0
    /\ ~mount_point_active

\* C8: when mount returns and the mount point is still inactive, the run
\* raises FailedToMountError and registers no unmount; a run that raised
\* FailedToMountError performs no transfer, snapshot or rotation, never
\* runs umount, and still runs the cryptdisks_stop registered by its own
\* unlock.
C8_FailedToMount ==
    /\ MountReturnedInactive
          => /\ error = "FailedToMountError"
             /\ pc = "notify_failed"
             /\ \A i \in 1..Len(undo_stack) : undo_stack[i].prog # "umount"
    /\ error = "FailedToMountError"
          => /\ ~Performed("transfer_changes")
             /\ ~Performed("create_snapshot")
             /\ ~Performed("rotate_snapshots")
             /\ ~Ran("rsync") /\ ~Ran("cp") /\ rotations = <<>>
             /\ ~Ran("umount")
             /\ Done /\ RanWell("cryptdisks_start") => Ran("cryptdisks_stop")

\* A run that unlocked the device, failed to mount and locked the device
\* again.
C8_Witness ==
    /\ Done /\ error = "FailedToMountError"
    /\ RanWell("cryptdisks_start") /\ RanWell("mount")
    /\ Ran("cryptdisks_stop")

\* cryptdisks_start has just returned with status 0 and the device is
\* still locked.
UnlockReturnedLocked ==
    /\ phases # <<>> /\ phases[Len(phases)] = "unlock_device"
    /\ commands # <<>> /\ LastCommand.prog = "cryptdisks_start"
    /\ LastCommand.returncode = 0
    /\ ~crypto_device_unlocked

\* C9: when cryptdisks_start returns successfully and the device is still
\* not unlocked, the run raises FailedToUnlockError and registers no lock
\* cleanup; a run that raised FailedToUnlockError performs no mount,
\* transfer, snapshot or rotation and never runs cryptdisks_stop.
C9_FailedToUnlock ==
    /\ UnlockReturnedLocked
          => /\ error = "FailedToUnlockError"
             /\ pc = "exit_context"
             /\ undo_stack = <<>>
    /\ error = "FailedToUnlockError"
          => /\ ~Performed("mount_filesystem")
             /\ ~Performed("transfer_changes")
             /\ ~Performed("create_snapshot")
             /\ ~Performed("rotate_snapshots")
             /\ ~Ran("mount") /\ ~Ran("rsync") /\ ~Ran("cp")
             /\ rotations = <<>>
             /\ undo_stack = <<>>
             /\ ~Ran("cryptdisks_stop")

\* A finished run in which cryptdisks_start exited with status 0 and
\* FailedToUnlockError was raised.
C9_Witness ==
    /\ Done /\ error = "FailedToUnlockError"
    /\ RanWell("cryptdisks_start")
    /\ commands = <<Executed(Command("cryptdisks_start", <<>>,
                                     <<crypto_device>>), 0)>>

EndNotifications ==
    SelectSeq(notifications, LAMBDA n : n \in {"finished", "failed"})

\* C10: a finished run with backup_enabled and notifications enabled that
\* fired the start notification fired exactly one end notification:
\* "finished" when nothing raised, "failed" when a phase raised.
C10_OneEndNotification ==
    Done /\ backup_enabled /\ notifications_enabled
         /\ notifications # <<>> /\ notifications[1] = "starting"
    => EndNotifications = IF error = "none" THEN <<"finished">>
                          ELSE <<"failed">>

\* Without a destination context no command but rsync is run, nothing is
\* rotated and no cleanup is registered.
FallbackRunsRsyncOnly ==
    context = "unavailable" =>
       /\ \A i \in 1..Len(commands) : commands[i].prog = "rsync"
       /\ rotations = <<>>
       /\ undo_stack = <<>>

\* C11: a run of execute() for a destination with a module, which has no
\* destination context, performs the transfer (when backups are enabled)
\* and skips unlock, mount, snapshot and rotation: none of them is
\* performed, runs a command or raises, so the run ends without an error
\* or with the transfer's.
C11_FallbackSkipsPhases ==
    Done /\ context = "unavailable" =>
       /\ backup_enabled => Performed("transfer_changes")
       /\ ~Performed("create_snapshot")
       /\ ~Performed("rotate_snapshots")
       /\ ~Ran("cryptdisks_start") /\ ~Ran("mount") /\ ~Ran("cp")
       /\ rotations = <<>>
       /\ error \in {"none", "ExternalCommandFailed"}

-----------------------------------------------------------------------------
(* Properties of Destination expressions.                                  *)

StartsWith(s, prefix) ==
    Len(s) >= Len(prefix) /\ SubSeq(s, 1, Len(prefix)) = prefix

Contains(s, c) == \E i \in 1..Len(s) : s[i] = c

\* C12: for a Destination built by parsing a daemon-module address (simple
\* or advanced form), parsing the expression it computes gives a
\* Destination with the same hostname, username, module, directory and
\* port_number.
C12_DaemonRoundTrip ==
    parse_pc = "reparsed" /\ address.form \in {"simple", "advanced"} =>
       /\ reparsed.error = "none"
       /\ reparsed.destination.hostname = parsed.destination.hostname
       /\ reparsed.destination.username = parsed.destination.username
       /\ reparsed.destination.module = parsed.destination.module
       /\ reparsed.destination.directory = parsed.destination.directory
       /\ reparsed.destination.port_number = parsed.destination.port_number

\* C13: an address composed in one of the three remote forms from a user
\* (or none), a host, a module, a port (or none) and a directory (or none)
\* parses into exactly these parts: no module for the SSH form, the
\* directory without the separating slash and port 873 when none is given
\* for the daemon forms.
C13_RemoteFormsParsed ==
    parse_pc = "parsed" /\ address.form \in {"ssh", "simple", "advanced"} =>
       /\ parsed.error = "none"
       /\ parsed.destination.hostname = address.hostname
       /\ parsed.destination.username = address.username
       /\ parsed.destination.directory = address.directory
       /\ parsed.destination.module =
              IF address.form = "ssh" THEN <<>> ELSE address.module
       /\ address.form = "advanced" =>
              parsed.destination.port_number =
                 IF address.port = <<>> THEN RSYNCD_PORT ELSE int(address.port)

\* C14: a non-empty expression without a colon that does not start with
\* rsync:// parses into a local destination: no hostname, username or
\* module, and the whole expression as the directory.
C14_LocalPathParsed ==
    parse_pc = "parsed" /\ value # <<>> /\ ~Contains(value, ":")
                        /\ ~StartsWith(value, RsyncScheme) =>
       /\ parsed.error = "none"
       /\ parsed.destination.hostname = <<>>
       /\ parsed.destination.username = <<>>
       /\ parsed.destination.module = <<>>
       /\ parsed.destination.directory = value

\* C15: the setter raises InvalidDestinationError exactly for the empty
\* expression.
C15_OnlyEmptyRejected ==
    parse_pc = "parsed" =>
       (parsed.error = "InvalidDestinationError" <=> value = <<>>)

\* C16: an expression that starts with rsync:// is matched by the advanced
\* daemon pattern and by no other.
C16_SchemeOnlyAdvanced ==
    parse_pc = "parsed" /\ StartsWith(value, RsyncScheme)
                        /\ parsed.error = "none" =>
       parsed.pattern = "ADVANCED_DAEMON_DESTINATION"

\* The expression is [USER@]HOST::REST: its first colon comes after a
\* non-empty host, with a user before it or none, and a second colon
\* follows at once.
HostThenDoubleColon(s) ==
    \E i \in 2..(Len(s) - 1) :
        LET front == SubSeq(s, 1, i - 1)
            ats == {k \in 1..Len(front) : front[k] = "@"}
        IN  /\ s[i] = ":" /\ s[i + 1] = ":"
            /\ ~Contains(front, ":")
            /\ Cardinality(ats) <= 1
            /\ \A k \in ats : 1 < k /\ k < Len(front)

\* C17: an expression [USER@]HOST::REST is never matched by the SSH
\* pattern.
C17_DoubleColonNeverSsh ==
    parse_pc = "parsed" /\ HostThenDoubleColon(value) =>
       parsed.pattern # "SSH_DESTINATION"

-----------------------------------------------------------------------------
(* Properties of the command line interface.                               *)

\* The options main() has handled so far.
Handled == SubSeq(argv, 1, Len(argv) - Len(options))

\* The actions requested by the options handled so far.
Requested ==
    {ExplicitAction(Handled[i]) :
        i \in {j \in 1..Len(Handled) : Handled[j] \in {"-b", "-s", "-r"}}}

\* The value the program gets for an action: the option's, or the default
\* of the property (True).
Enabled(action) ==
    IF action \in DOMAIN program_opts THEN program_opts[action] ELSE TRUE

\* C18: whatever options were handled and in whatever order, an action is
\* enabled iff it was requested or none was requested: with a request
\* exactly the requested actions are enabled, without one all three are.
C18_ExplicitActions ==
    cli_pc # "idle" =>
       \A action \in Actions :
          Enabled(action) <=> (Requested = {} \/ action \in Requested)

\* --rotate before --backup: the later option leaves the earlier one
\* enabled and the snapshot disabled.
C18_Witness ==
    /\ cli_pc = "run"
    /\ argv = <<"-r", "-n", "-b">>
    /\ Enabled("backup_enabled") /\ Enabled("rotate_enabled")
    /\ ~Enabled("snapshot_enabled")

\* C19: after the run the exit status is 0 when nothing was raised, 0 when
\* MissingBackupDiskError was raised and no terminal is attached, and 1
\* for every other error, MissingBackupDiskError with a terminal and
\* errors that are no RsyncSystemBackupError included.
C19_ExitStatus ==
    cli_pc = "finished" =>
       exit_status = IF error = "none" THEN 0
                     ELSE IF error = "MissingBackupDiskError" /\ ~terminal
                     THEN 0
                     ELSE 1

\* The backup disk is missing and a terminal is attached: status 1.
C19_Witness ==
    /\ cli_pc = "finished"
    /\ error = "MissingBackupDiskError"
    /\ terminal
    /\ exit_status = 1

-----------------------------------------------------------------------------
(* The snapshot of a successful run.                                       *)

SnapshotCommands == SelectSeq(commands, LAMBDA c : c.prog = "cp")

\* The pathname of the entry called name in the directory dir.
Entry(dir, name) ==
    IF dir[Len(dir)] = "/" THEN dir \o name ELSE dir \o <<"/">> \o name

\* path names an entry of the directory dir, possibly with trailing
\* slashes.
EntryOf(path, dir) ==
    \E i \in 1..Len(path), j \in 1..Len(path) :
        LET name == SubSeq(path, i, j)
        IN  /\ i <= j
            /\ ~Contains(name, "/")
            /\ \A k \in (j + 1)..Len(path) : path[k] = "/"
            /\ SubSeq(path, 1, j) = Entry(dir, name)

\* The directories of the file system the destination may lie in.
ParentDirectories == {<<"/">>, <<"/", "b">>}

\* C20: a finished run without error, with snapshot_enabled and without
\* dry_run, ran exactly one cp command, after rsync when there was a
\* transfer, from the destination directory to the entry named by the
\* timestamp in the directory that holds the destination directory.
C20_OneSnapshotAfterTransfer ==
    Done /\ error = "none" /\ snapshot_enabled /\ ~dry_run =>
       /\ Len(SnapshotCommands) = 1
       /\ SnapshotCommands[1].returncode = 0
       /\ backup_enabled =>
              /\ Len(RsyncRuns) = 1
              /\ FirstRun("rsync") < FirstRun("cp")
       /\ SnapshotCommands[1].paths[1] = destination.directory
       /\ \E dir \in ParentDirectories :
              /\ EntryOf(destination.directory, dir)
              /\ SnapshotCommands[1].paths[2] = Entry(dir, Timestamp)

\* A transfer into /b/l/ followed by its snapshot /b/T.
C20_Witness ==
    /\ Done /\ error = "none" /\ snapshot_enabled /\ ~dry_run
    /\ destination.directory = <<"/", "b", "/", "l", "/">>
    /\ RanWell("rsync")
    /\ Progs(SnapshotCommands) = <<"cp">>
    /\ SnapshotCommands[1].paths = <<destination.directory, <<"/", "b", "/", "T">> >>

-----------------------------------------------------------------------------
(* Properties of the rotation.                                             *)

\* The destination directory is an entry of a directory.
HasParent == \E dir \in ParentDirectories : EntryOf(destination.directory, dir)

\* The position of a phase among the phases performed (0: not performed).
PhasePosition(phase) ==
    IF Performed(phase)
    THEN CHOOSE i \in 1..Len(phases) : phases[i] = phase
    ELSE 0

\* The rotation phase was performed once, after the transfer and the
\* snapshot phases that were performed.
RotationPhaseOnceAfterSnapshot ==
    /\ Len(SelectSeq(phases, LAMBDA phase : phase = "rotate_snapshots")) = 1
    /\ PhasePosition("transfer_changes") < PhasePosition("rotate_snapshots")
    /\ PhasePosition("create_snapshot") < PhasePosition("rotate_snapshots")

\* The one rotation delegated, with the parent of the destination
\* directory, the rotation scheme, dry_run and the ionice class; its
\* failure is the error of execute().
DelegatedOnce ==
    /\ Len(rotations) = 1
    /\ EntryOf(destination.directory, rotations[1].directory)
    /\ rotations[1].directory \in ParentDirectories
    /\ rotations[1].rotation_scheme = rotation_scheme
    /\ rotations[1].dry_run = dry_run
    /\ rotations[1].io_scheduling_class = ionice
    /\ rotations[1].failed <=> error = "RotateBackupsError"

\* C21 as stated: a finished run with rotate_enabled whose earlier phases
\* succeeded (it ended without error, or reached the rotation phase)
\* performed the rotation phase once, after the snapshot phase, and
\* delegated exactly one rotation, with the parent of the destination
\* directory, the rotation scheme, dry_run and the ionice class; the
\* service's failure is the error execute() ends with.
C21_RotationDelegatedOnce ==
    Done /\ rotate_enabled =>
       /\ error = "none" => Performed("rotate_snapshots")
       /\ Performed("rotate_snapshots") =>
              RotationPhaseOnceAfterSnapshot /\ DelegatedOnce

\* C21, amended: the same for a destination that is not an rsync daemon
\* module and whose directory has a parent; for a daemon module the phase
\* raises DestinationContextUnavailable, and otherwise for a directory
\* without a parent ParentDirectoryUnavailable, with no rotation delegated.
\* Nothing is delegated when rotate_enabled is false.
C21_RotationDelegatedOrUnavailable ==
    /\ Len(rotations) <= 1
    /\ ~rotate_enabled => rotations = <<>>
    /\ Done /\ rotate_enabled =>
          /\ error = "none" => Performed("rotate_snapshots")
          /\ ~Performed("rotate_snapshots") => rotations = <<>>
          /\ Performed("rotate_snapshots") =>
                 /\ RotationPhaseOnceAfterSnapshot
                 /\ IF destination.module # <<>>
                    THEN /\ rotations = <<>>
                         /\ error = "DestinationContextUnavailable"
                    ELSE IF ~HasParent
                    THEN /\ rotations = <<>>
                         /\ error = "ParentDirectoryUnavailable"
                    ELSE DelegatedOnce

\* A rotation of /b with a custom scheme and the idle class, after a
\* transfer and a snapshot, that failed: execute() ends with its error.
C21_Witness ==
    /\ Done /\ rotate_enabled /\ snapshot_enabled /\ ~dry_run
    /\ RanWell("rsync") /\ RanWell("cp")
    /\ rotations = <<[directory |-> <<"/", "b">>,
                      rotation_scheme |-> [daily |-> 3],
                      dry_run |-> FALSE,
                      io_scheduling_class |-> <<"i", "d", "l", "e">>,
                      failed |-> TRUE]>>
    /\ error = "RotateBackupsError"

-----------------------------------------------------------------------------
(* Properties of destination_context.                                      *)

\* execute() has read destination_context.
ContextRead == pc # "execute"

\* C22: once execute() has read destination_context, the read raised
\* DestinationContextUnavailable exactly when the destination has a module;
\* otherwise the context is a local one when the hostname is empty and a
\* remote one whose SSH alias and SSH user are the destination's hostname
\* and username when it is not.
C22_DestinationContext ==
    ContextRead =>
       /\ context = "unavailable" <=> destination.module # <<>>
       /\ context = "unavailable" => destination_context.class = "none"
       /\ context # "unavailable" =>
              IF destination.hostname = <<>>
              THEN destination_context.class = "LocalContext"
              ELSE /\ destination_context.class = "RemoteContext"
                   /\ destination_context.ssh_alias = destination.hostname
                   /\ destination_context.ssh_user = destination.username

\* The context of u@h:/b/l is a remote one for the user u on h.
C22_Witness ==
    /\ ContextRead
    /\ destination.module = <<>>
    /\ destination.username = <<"u">>
    /\ destination_context =
          [class |-> "RemoteContext", ssh_alias |-> <<"h">>,
           ssh_user |-> <<"u">>, sudo |-> TRUE]

-----------------------------------------------------------------------------
(* Properties of Destination objects.                                      *)

Constructed == object_pc \in {"constructed", "read"}

\* C23: the constructor fails with TypeError exactly when it is given no
\* expression and neither a hostname nor a directory (the case in which the
\* expression getter has no value); with an expression that can be parsed
\* it succeeds, and the expression read from an object that was built is
\* never absent.
C23_ExpressionRequired ==
    Constructed =>
       /\ object.error = "TypeError" <=>
              /\ ~keywords.has_expression
              /\ keywords.hostname = <<>>
              /\ keywords.directory = <<>>
       /\ keywords.has_expression /\ keywords.expression # <<>> =>
              object.error = "none"
       /\ object.error = "none" =>
              \/ object.destination.hostname # <<>>
              \/ object.destination.directory # <<>>
       /\ read.property = "expression" => read.value # None

\* Destination(username='u', module='m') fails with TypeError.
C23_Witness ==
    /\ Constructed
    /\ ~keywords.has_expression
    /\ keywords.username = <<"u">> /\ keywords.module = <<"m">>
    /\ object.error = "TypeError"

-----------------------------------------------------------------------------
(* Properties of main() without a destination argument.                    *)

\* main() is past the options and the positional arguments.
ArgumentsHandled == cli_pc \notin {"idle", "options"}

\* The program was built and execute() was called.
Executing == cli_pc \in {"executing", "finished"} /\ pc # "idle"

\* C24: main() without positional arguments.  When $RSYNC_MODULE_PATH is
\* set and not empty, the usage message is shown only for --help, and the
\* program that runs has the destination the variable names (a local
\* directory here).  Otherwise main() shows the usage message and returns:
\* the exit status is 0, no program is built and no phase, command,
\* rotation or notification happens.
C24_DestinationFromEnvironment ==
    arguments = <<>> /\ ArgumentsHandled =>
       IF environ # <<>>
       THEN /\ cli_pc = "usage" =>
                  \E i \in 1..Len(Handled) : Handled[i] = "-h"
            /\ Executing =>
                  /\ destination.directory = environ
                  /\ destination.hostname = <<>>
                  /\ destination.username = <<>>
                  /\ destination.module = <<>>
                  /\ \A i \in 1..Len(RsyncRuns) :
                         RsyncRuns[i].paths[2] = environ \o <<"/">>
       ELSE /\ cli_pc = "usage"
            /\ exit_status = 0
            /\ pc = "idle"
            /\ phases = <<>> /\ commands = <<>>
            /\ rotations = <<>> /\ notifications = <<>>
            /\ error = "none"

\* A backup into the directory named by $RSYNC_MODULE_PATH that succeeded.
C24_Witness ==
    /\ arguments = <<>>
    /\ environ = <<"/", "b", "/", "e">>
    /\ cli_pc = "finished"
    /\ exit_status = 0
    /\ RanWell("rsync")
    /\ RsyncRuns[1].paths[2] = <<"/", "b", "/", "e", "/">>

-----------------------------------------------------------------------------
(* Properties of the rsync command.                                        *)

\* The SSH client of the tunnel is running when the i-th command starts.
TunnelOpenAt(i) ==
    \E j \in 1..(i - 1) :
        /\ commands[j].prog = "ssh"
        /\ commands[j].event = "started"
        /\ \A k \in (j + 1)..(i - 1) :
              ~(commands[k].prog = "ssh" /\ commands[k].event = "terminated")

\* C25: for a destination with a tunnel (a ForwardedDestination) the
\* tunnel is open whenever rsync is started, and closed again once the
\* transfer phase was performed, whatever rsync's exit status.
C25_TunnelAroundSync ==
    destination_class = "ForwardedDestination" =>
       /\ \A i \in 1..Len(commands) :
             commands[i].prog = "rsync" => TunnelOpenAt(i)
       /\ Performed("transfer_changes") => ~TunnelOpenAt(Len(commands) + 1)

\* The filter arguments of the given patterns, in order.
Filters(patterns) ==
    [i \in 1..Len(patterns) |-> <<"--filter=-/ ", patterns[i]>>]

HasOption(command, option) ==
    \E k \in 1..Len(command.opts) : command.opts[k] = option

\* The program was given the keyword and main() is done with it.
FinishedWith(key) == cli_pc = "finished" /\ key \in DOMAIN program_opts

\* C26: every rsync command run under main() has --one-file-system exactly
\* when --multi-fs was not given, and a program given --multi-fs gets to
\* run execute().
C26_OneFileSystemUnlessMultiFs ==
    /\ \A i \in 1..Len(RsyncRuns) :
          HasOption(RsyncRuns[i], "--one-file-system")
             <=> "multi_fs" \notin DOMAIN program_opts
    /\ FinishedWith("multi_fs") => pc = "done"

\* Every rsync command that was run has --one-file-system.
AlwaysOneFileSystem ==
    \A i \in 1..Len(RsyncRuns) :
        HasOption(RsyncRuns[i], "--one-file-system")

\* C27: every rsync command run under main() has one filter argument for
\* each excluded root followed by one for each pattern given with
\* --exclude, in that order and nothing else, and a program given --exclude
\* gets to run execute().
C27_FilterPerPattern ==
    /\ \A i \in 1..Len(RsyncRuns) :
          RsyncRuns[i].filters =
             Filters(excluded_roots \o Get(program_opts, "exclude_list", <<>>))
    /\ FinishedWith("exclude_list") => pc = "done"

\* Every rsync command that was run has one filter argument for each of
\* the excluded roots of the program, in their order.
FilterPerExcludedRoot ==
    \A i \in 1..Len(RsyncRuns) :
        RsyncRuns[i].filters = Filters(excluded_roots)

-----------------------------------------------------------------------------
(* Properties of the properties of a Destination.                          *)

\* C28: a read of parent_directory raises ParentDirectoryUnavailable
\* exactly when the directory is empty or '/', and otherwise returns the
\* directory that the destination directory is an entry of.
C28_ParentDirectory ==
    read.property = "parent_directory" =>
       /\ read.raised = "ParentDirectoryUnavailable" <=>
              object.destination.directory \in {<<>>, <<"/">>}
       /\ read.raised = "none" =>
              EntryOf(object.destination.directory, read.value)

\* A parent directory that is returned is the directory the destination
\* directory is an entry of, and none is returned for '', '/' and '//'.
ParentReturnedIsParent ==
    read.property = "parent_directory" =>
       /\ read.raised = "none" =>
              EntryOf(object.destination.directory, read.value)
       /\ object.destination.directory \in {<<>>, <<"/">>, <<"/", "/">>} =>
              read.raised = "ParentDirectoryUnavailable"

\* The decimal digits of the port numbers of the model.
PortText(port_number) ==
    CASE port_number = RSYNCD_PORT -> <<"8", "7", "3">>
      [] port_number = 22 -> <<"2", "2">>
      [] port_number = 0 -> <<"0">>

\* The expression of a daemon destination, with the port or without.
DaemonExpression(d, with_port) ==
    RsyncScheme \o UserAt(d) \o d.hostname
    \o (IF with_port THEN <<":">> \o PortText(d.port_number) ELSE <<>>)
    \o <<"/">> \o d.module \o d.directory

\* An expression of a daemon destination (a module on a host) was read.
DaemonExpressionRead ==
    /\ read.property = "expression"
    /\ object.destination.module # <<>>
    /\ object.destination.hostname # <<>>

\* C29 as stated: the expression read from a daemon destination has no
\* port when port_number is 873 and :PORT after the host otherwise.
C29_DefaultPortOmitted ==
    DaemonExpressionRead =>
       read.value = DaemonExpression(object.destination,
                        object.destination.port_number # RSYNCD_PORT)

\* C29, amended: the expression read from a daemon destination has :PORT
\* after the host whenever port_number is not zero, 873 included, and no
\* port when it is zero.
C29_NonzeroPortWritten ==
    DaemonExpressionRead =>
       read.value = DaemonExpression(object.destination,
                        object.destination.port_number # 0)

\* rsync://h:873/m is read from a daemon destination on the default port.
C29_Witness ==
    /\ DaemonExpressionRead
    /\ object.destination.port_number = RSYNCD_PORT
    /\ read.value = RsyncScheme \o <<"h", ":", "8", "7", "3", "/", "m">>

\* path without its trailing slashes.
RECURSIVE Stripped(_)
Stripped(path) ==
    IF path # <<>> /\ path[Len(path)] = "/"
    THEN Stripped(SubSeq(path, 1, Len(path) - 1))
    ELSE path

\* argument is given with exactly one slash at the end, after the rest of
\* given, and normalising it again changes nothing.
Normalised(argument, given) ==
    /\ argument = Stripped(given) \o <<"/">>
    /\ Len(argument) > 1 => argument[Len(argument) - 1] # "/"
    /\ ensure_trailing_slash(argument) = argument

\* C30: the source and the destination argument of every rsync command
\* that is run are the source and the destination expression, which are
\* never empty, with their trailing slashes replaced by exactly one.
C30_TrailingSlash ==
    \A i \in 1..Len(RsyncRuns) :
        /\ Len(RsyncRuns[i].paths) = 2
        /\ source # <<>> /\ expression(destination) # <<>>
        /\ Normalised(RsyncRuns[i].paths[1], source)
        /\ Normalised(RsyncRuns[i].paths[2], expression(destination))

\* A transfer from /s// to /b/l/ ran rsync with /s/ and /b/l/.
C30_Witness ==
    /\ source = <<"/", "s", "/", "/">>
    /\ Len(RsyncRuns) = 1
    /\ RsyncRuns[1].paths =
          << <<"/", "s", "/">>, <<"/", "b", "/", "l", "/">> >>
    /\ destination.directory = <<"/", "b", "/", "l", "/">>

-----------------------------------------------------------------------------
(* Failures of the desktop notifications.                                  *)

\* The notification with this body was fired and could not be delivered.
Undelivered(body) == \E i \in 1..Len(undelivered) : undelivered[i] = body

C33_NoEndNotificationWithoutBackup ==
    Done /\ ~backup_enabled => EndNotifications = <<>>

\* What does hold without backup_enabled: no start and no finished
\* notification; the failed notification depends on notifications_enabled
\* alone.
NoFinishedNotificationWithoutBackup ==
    Done /\ ~backup_enabled =>
        \A i \in 1..Len(notifications) : notifications[i] = "failed"

-----------------------------------------------------------------------------
(* The expression of a Destination without a host name.                    *)

\* The expression property of the constructed Destination was read.
ExpressionRead == object_pc = "read" /\ read.property = "expression"

\* C34: when hostname is empty the expression is exactly the directory,
\* without any prefix, whatever module, username and port_number are.
C34_LocalExpressionIsDirectory ==
    ExpressionRead /\ object.destination.hostname = <<>> =>
        read.value = object.destination.directory

\* What does hold: without a host name the expression is the directory
\* after the rsync:// scheme when a module is set, the directory alone
\* otherwise.
LocalExpressionAfterScheme ==
    ExpressionRead /\ object.destination.hostname = <<>> =>
        read.value = (IF object.destination.module # <<>> THEN RsyncScheme
                      ELSE <<>>) \o object.destination.directory

-----------------------------------------------------------------------------
(* The objects the parser produces.                                        *)

\* Destination(expression=value) returned an object.
Parsed == parse_pc # "idle" /\ parse_pc # "new" /\ parsed.error = "none"

\* C35: every Destination a successful parse produces has a host name or
\* a directory, and has a module only together with a host name.
C35_ParsedDestinationInvariant ==
    Parsed =>
        /\ parsed.destination.hostname # <<>>
           \/ parsed.destination.directory # <<>>
        /\ parsed.destination.module # <<>>
              => parsed.destination.hostname # <<>>

\* A parsed object with a module, its host name and no directory.
C35_Witness ==
    /\ Parsed
    /\ parsed.pattern = "SIMPLE_DAEMON_DESTINATION"
    /\ parsed.destination.module # <<>>
    /\ parsed.destination.hostname # <<>>
    /\ parsed.destination.directory = <<>>

-----------------------------------------------------------------------------
(* The destination argument of rsync, read back.                           *)

\* The directory as it is expected in the argument: with one trailing
\* slash, and empty when it is empty.
WithOneSlash(directory) ==
    IF directory = <<>> THEN <<>> ELSE Stripped(directory) \o <<"/">>

\* The argument names the destination d: parsed as an expression it gives
\* the host name, user name and module of d and the directory of d with one
\* trailing slash.
Names(argument, d) ==
    LET result == set_expression(NewDestination, argument)
    IN  /\ result.error = "none"
        /\ result.destination.hostname = d.hostname
        /\ result.destination.username = d.username
        /\ result.destination.module = d.module
        /\ result.destination.directory = WithOneSlash(d.directory)

\* C36: the destination argument of every rsync command names the
\* configured destination: the same host name, user name and module and the
\* configured directory with one trailing slash; an empty directory stays
\* empty and module and directory stay apart.
C36_ArgumentNamesDestination ==
    \A i \in 1..Len(RsyncRuns) : Names(RsyncRuns[i].paths[2], destination)

\* What does hold: the argument names the destination when it is local,
\* when it is reached over SSH with a directory, and when it is a daemon
\* module without a directory.
ArgumentNamesPlainDestination ==
    \A i \in 1..Len(RsyncRuns) :
        \/ destination.hostname # <<>> /\ destination.module = <<>>
              /\ destination.directory = <<>>
        \/ destination.module # <<>> /\ destination.directory # <<>>
        \/ Names(RsyncRuns[i].paths[2], destination)

-----------------------------------------------------------------------------
(* What an assignment to the expression property changes.                  *)

Fields == {"username", "hostname", "port_number", "module", "directory"}

\* The groups of the first pattern that matches s.
Captured(s) ==
    LET matching == {k \in 1..Len(DESTINATION_PATTERNS) :
                        match(DESTINATION_PATTERNS[k].pattern, s).matched}
        first == CHOOSE k \in matching : \A j \in matching : k <= j
    IN  match(DESTINATION_PATTERNS[first].pattern, s).captures

\* An expression was assigned to the constructed Destination and parsed.
Assigned == object_pc = "assigned" /\ read.raised = "none"

\* C37: an assignment to expression changes only the fields the matching
\* pattern captures as not empty, to what it captured; every other field
\* keeps the value it had, so no field that was set is cleared.
C37_SetterChangesCapturedOnly ==
    Assigned =>
        LET before == object.destination
            after == read.value
            captures == Captured(read.assigned)
        IN  \A f \in Fields :
                /\ captures[f] = <<>> => after[f] = before[f]
                /\ captures[f] # <<>> =>
                      after[f] = IF f = "port_number" THEN int(captures[f])
                                 ELSE captures[f]
                /\ f # "port_number" /\ before[f] # <<>> => after[f] # <<>>

\* 'h::m' assigned to a Destination built with a user name, port 22 and the
\* directory /b/l: the three are kept next to the new host name and module.
C37_Witness ==
    /\ Assigned
    /\ read.assigned = <<"h", ":", ":", "m">>
    /\ object.destination = [username |-> <<"u">>, hostname |-> <<>>,
                             port_number |-> 22, module |-> <<>>,
                             directory |-> <<"/", "b", "/", "l">>]
    /\ read.value = [username |-> <<"u">>, hostname |-> <<"h">>,
                     port_number |-> 22, module |-> <<"m">>,
                     directory |-> <<"/", "b", "/", "l">>]

-----------------------------------------------------------------------------
(* Termination.                                                            *)

\* C38: provided every external command, notification and rotation call
\* returns, execute() ends (returning or raising) and, once it has, no
\* registered cleanup command is left to run.
C38_Terminates == <>[](Done /\ undo_stack = <<>>)

\* A run that registered both cleanup commands, failed in the transfer and
\* ended raising that error with both cleanup commands run.
C38_Witness ==
    /\ Done
    /\ undo_stack = <<>>
    /\ error = "ExternalCommandFailed"
    /\ Ran("cryptdisks_stop") /\ Ran("umount")
    /\ Performed("transfer_changes")

====
